---- MODULE Spec2Model ----
(***************************************************************************)
(* The crash game: the CrashGame contract (CrashGame.sol) and the server   *)
(* that drives its rounds (pyth-entropy-handler.ts: runGame, the cash-out  *)
(* handler, the main loop, the WebSocket handlers), the game generator     *)
(* (generateCrashGame), the verifier of the frontend (VerifyGame) and the   *)
(* frontend's connection hook (useWebSocket).                              *)
(*                                                                         *)
(* Scales.  On chain 1e18 is one token and 1.00x; here E18 stands for it.  *)
(* Server-side multipliers are carried in the unit of a tick's             *)
(* currentValue, 1/100000 (1.00x = 100000); generated prices are in cents. *)
(***************************************************************************)
EXTENDS Integers, Sequences, FiniteSets, TLC

\* ------------------------------------------------------------------ bounds
MaxRounds == 2        \* rounds the contract creates in a run
MaxGames == 1         \* calls of runGame by the main loop
MaxTicks == 3         \* ticks a generated game has at most (totalTicks)
MaxRequests == 2      \* cash-out requests in flight at one time
MaxPolls == 2         \* turns of the entropy polling loop (the code: 120 s / 3 s)
MaxCashOuts == 31     \* cash-outs on record when a settlement starts
MaxClients == 1       \* WebSocket connections the server accepts in a run
MaxChats == 1         \* chat messages clients send in a run
MaxEntropy == 2       \* entropy values tried with every other input
MaxCalls == 2         \* calls of generateCrashGame on one input
MaxNow == 1           \* days the server's clock moves on
MaxSockets == 4       \* WebSockets the hook creates in a run
maxRetries == 2       \* maxRetries of the hook (30 by default)

\* --------------------------------------------------------- program constants
E18 == 100                        \* 1e18: one token, and 1.00x, on chain
HOUSE_EDGE_BPS == 150
BPS_DENOMINATOR == 10000
MAX_BET == 1000 * E18
MAX_WIN_PERCENTAGE_BPS == 7000

\* enum RoundStatus
Created == 0
RandomRequested == 1
RandomReady == 2
SeedRevealed == 3

\* ------------------------------------------------------------------ values
Addresses == {"operator", "alice", "bob"}
Callers == {"operator", "alice"}
RoundIds == 1..MaxRounds
SeqNums == 1..MaxRounds

\* Byte strings passed as server seeds; "" is the empty byte string.
SeedBytes == {"", "seedA", "seedB"}
Seeds == {"seedA", "seedB"}
ZeroHash == "0x00"
\* keccak256 is modelled as the injective map it is assumed to be; no digest
\* is the zero word, and "0xee" is a digest with no preimage among SeedBytes.
keccak256(b) ==
    CASE b = "" -> "0xc5"
      [] b = "seedA" -> "0xa1"
      [] b = "seedB" -> "0xb2"
Hashes == {ZeroHash, "0xc5", "0xa1", "0xb2", "0xee"}

NonZeroEntropy == {7}

NoRound ==
    [serverSeedHash |-> ZeroHash, serverSeed |-> "", sequenceNumber |-> 0,
     entropyRandom |-> 0, status |-> Created]
NoBet == [amount |-> 0, cashOutMultiplier |-> 0, settled |-> FALSE]

\* --------------------------------------------------------------- variables
VARIABLES
    rounds,                 \* mapping(uint256 => Round)
    roundCounter,
    sequenceToRound,        \* mapping(uint64 => uint256)
    operator,
    bets,                   \* mapping(uint256 => mapping(address => Bet))
    claimablePayouts,       \* mapping(address => uint256)
    roundFinalMultipliers,
    roundSettled,
    tokenBalance,           \* token.balanceOf(address(this))
    entropySeq,             \* the next sequence number the entropy provider issues
    lastTx,                 \* history: the last transaction sent to the contract
    entropyDelivered,       \* history: rounds whose entropyCallback succeeded
    \* the server (pyth-entropy-handler.ts)
    pc,                     \* the await at which runGame, or the main loop, stands
    games,                  \* calls of runGame so far
    gameServerSeed,         \* runGame: const serverSeed
    currentRoundId,         \* runGame: let currentRoundId, then roundId
    waited,                 \* requestAndWaitForEntropy: let waited
    updates,                \* runGame: const updates = gameResult.updates
    gameFinalMultiplier,    \* runGame: const finalMultiplier, in cents
    tickIndex,              \* runGame: the index i of the streaming loop, from 1
    gameCashOuts,           \* runGame: const cashOuts, read once after the reveal
    batchIndex,             \* runGame: the index i of the batch loop, from 1
    activeRounds,           \* Map<number, {currentMultiplier, state, finalMultiplier}>
    activeCashOuts,         \* Map<number, CashOut[]>
    requests,               \* the handler runs that stand at an await: the message,
                            \* the stage and, as history, the live multiplier when
                            \* it arrived and whether its wallet had been answered
                            \* success: true for the round by then
    lastResponse,           \* the cash_out_response sent in the last step, if any
    acked,                  \* history: the cash-outs answered with success: true
    successCount,           \* history: success responses per round and address
    submitted,              \* history: entries of the batches that went through
    sentBatches,            \* history: the batches that went through, per round
    completed,              \* history: rounds whose settlement runGame finished
    generated,              \* history: the final multiplier generated per round
    \* the WebSocket side of the server
    clients,                \* const clients = new Set<WebSocket>(), with readyState
    inbox,                  \* what ws.send has handed to each connection, in order
    currentGameState,       \* let currentGameState
    chatMessages,           \* const chatMessages
    chatsSent,              \* chat_message frames received so far
    \* generateCrashGame and VerifyGame at work on one input
    gameInput,              \* the GameInput handed to generateCrashGame
    now,                    \* Date.now(), as the number of the day
    results,                \* what the calls of generateCrashGame returned, and
                            \* the day of each call
    genCalls,               \* calls of generateCrashGame so far
    verified,               \* the finalMultiplier VerifyGame shows, if any
    \* the frontend's useWebSocket hook
    sockets,                \* the WebSockets the hook has created: readyState
    wsRef,                  \* wsRef.current, 0 for null
    retryCountRef,          \* retryCountRef.current
    reconnectTimeoutRef,    \* reconnectTimeoutRef.current, 0 for null
    timers,                 \* the reconnect timeouts that are pending
    mounted,                \* the component that uses the hook is mounted
    stayClosed,             \* history: disconnect() or the unmount closed an
                            \* open connection and connect() was not called
                            \* since
    sinceOpen               \* history: reconnects scheduled since the last open

contractVars ==
    <<rounds, roundCounter, sequenceToRound, operator, bets, claimablePayouts,
      roundFinalMultipliers, roundSettled, tokenBalance, entropySeq, lastTx,
      entropyDelivered>>

runGameVars ==
    <<pc, games, gameServerSeed, currentRoundId, waited, updates, gameFinalMultiplier,
      tickIndex, gameCashOuts, batchIndex>>
mapVars == <<activeRounds, activeCashOuts>>
handlerVars == <<requests, lastResponse>>
historyVars == <<acked, successCount, submitted, sentBatches, completed, generated>>
wsVars == <<clients, inbox, currentGameState, chatMessages, chatsSent>>
genVars == <<gameInput, now, results, genCalls, verified>>
serverVars == <<runGameVars, mapVars, handlerVars, historyVars, wsVars, genVars>>
hookVars ==
    <<sockets, wsRef, retryCountRef, reconnectTimeoutRef, timers, mounted,
      stayClosed, sinceOpen>>

vars == <<contractVars, serverVars, hookVars>>

Tx(fn, sender, roundId, seed, ok) ==
    [fn |-> fn, sender |-> sender, roundId |-> roundId, seed |-> seed, ok |-> ok]

\* The history keeps the calls of the functions the properties below speak
\* of, reverted ones included; a call of another function leaves it as it is.
TracedCalls == {"createRound", "revealServerSeed", "settleRound", "placeBet"}
Trace(fn, sender, roundId, seed, ok) ==
    IF fn \in TracedCalls THEN Tx(fn, sender, roundId, seed, ok) ELSE lastTx

\* A reverted transaction changes no contract state.
Revert(fn, sender, roundId, seed) ==
    /\ lastTx' = Trace(fn, sender, roundId, seed, FALSE)
    /\ UNCHANGED <<rounds, roundCounter, sequenceToRound, operator, bets,
                   claimablePayouts, roundFinalMultipliers, roundSettled,
                   tokenBalance, entropySeq, entropyDelivered>>

ContractInit ==
    /\ rounds = [r \in RoundIds |-> NoRound]
    /\ roundCounter = 1
    /\ sequenceToRound = [s \in SeqNums |-> 0]
    /\ operator = "operator"
    /\ bets = [r \in RoundIds |-> [w \in Addresses |-> NoBet]]
    /\ claimablePayouts = [w \in Addresses |-> 0]
    /\ roundFinalMultipliers = [r \in RoundIds |-> 0]
    /\ roundSettled = [r \in RoundIds |-> FALSE]
    /\ tokenBalance = 0
    /\ entropySeq = 1
    /\ lastTx = Tx("constructor", "operator", 0, "", TRUE)
    /\ entropyDelivered = {}

\* ------------------------------------------------------- contract functions
createRound_NoIncrement(sender, serverSeedHash) ==
    /\ roundCounter <= MaxRounds
    /\ rounds' = [rounds EXCEPT ![roundCounter] =
                    [serverSeedHash |-> serverSeedHash, serverSeed |-> "",
                     sequenceNumber |-> 0, entropyRandom |-> 0, status |-> Created]]
    /\ roundCounter' = roundCounter
    /\ lastTx' = Trace("createRound", sender, roundCounter, "", TRUE)
    /\ UNCHANGED <<sequenceToRound, operator, bets, claimablePayouts,
                   roundFinalMultipliers, roundSettled, tokenBalance, entropySeq,
                   entropyDelivered>>

createRound(sender, serverSeedHash) ==
    /\ roundCounter <= MaxRounds
    /\ rounds' = [rounds EXCEPT ![roundCounter] =
                    [serverSeedHash |-> serverSeedHash, serverSeed |-> "",
                     sequenceNumber |-> 0, entropyRandom |-> 0, status |-> Created]]
    /\ roundCounter' = roundCounter + 1
    /\ lastTx' = Trace("createRound", sender, roundCounter, "", TRUE)
    /\ UNCHANGED <<sequenceToRound, operator, bets, claimablePayouts,
                   roundFinalMultipliers, roundSettled, tokenBalance, entropySeq,
                   entropyDelivered>>

\* requestRandomness without the checks of the round's status and sequence
\* number
requestRandomness_Again(sender, roundId, feePaid) ==
    LET round == rounds[roundId]
        sequenceNumber == entropySeq
    IN  IF /\ round.serverSeedHash # ZeroHash
           /\ feePaid
           /\ sequenceNumber \in SeqNums
           /\ sequenceToRound[sequenceNumber] = 0
        THEN /\ entropySeq' = entropySeq + 1
             /\ sequenceToRound' = [sequenceToRound EXCEPT ![sequenceNumber] = roundId]
             /\ rounds' = [rounds EXCEPT ![roundId].sequenceNumber = sequenceNumber,
                                         ![roundId].status = RandomRequested]
             /\ lastTx' = Trace("requestRandomness", sender, roundId, "", TRUE)
             /\ UNCHANGED <<roundCounter, operator, bets, claimablePayouts,
                            roundFinalMultipliers, roundSettled, tokenBalance,
                            entropyDelivered>>
        ELSE Revert("requestRandomness", sender, roundId, "")

\* feePaid: msg.value >= entropy.getFeeV2()
requestRandomness(sender, roundId, feePaid) ==
    LET round == rounds[roundId]
        sequenceNumber == entropySeq
    IN  IF /\ round.serverSeedHash # ZeroHash
           /\ round.status = Created
           /\ round.sequenceNumber = 0
           /\ feePaid
           /\ sequenceNumber \in SeqNums
           /\ sequenceToRound[sequenceNumber] = 0
        THEN /\ entropySeq' = entropySeq + 1
             /\ sequenceToRound' = [sequenceToRound EXCEPT ![sequenceNumber] = roundId]
             /\ rounds' = [rounds EXCEPT ![roundId].sequenceNumber = sequenceNumber,
                                         ![roundId].status = RandomRequested]
             /\ lastTx' = Trace("requestRandomness", sender, roundId, "", TRUE)
             /\ UNCHANGED <<roundCounter, operator, bets, claimablePayouts,
                            roundFinalMultipliers, roundSettled, tokenBalance,
                            entropyDelivered>>
        ELSE Revert("requestRandomness", sender, roundId, "")

entropyCallback_AnyStatus(sequenceNumber, randomValue) ==
    LET roundId == sequenceToRound[sequenceNumber]
    IN  IF roundId # 0
        THEN /\ rounds' = [rounds EXCEPT ![roundId].entropyRandom = randomValue,
                                         ![roundId].status = RandomReady]
             /\ entropyDelivered' = entropyDelivered \cup {roundId}
             /\ lastTx' = Trace("entropyCallback", "entropy", roundId, "", TRUE)
             /\ UNCHANGED <<roundCounter, sequenceToRound, operator, bets,
                            claimablePayouts, roundFinalMultipliers, roundSettled,
                            tokenBalance, entropySeq>>
        ELSE Revert("entropyCallback", "entropy", roundId, "")

entropyCallback(sequenceNumber, randomValue) ==
    LET roundId == sequenceToRound[sequenceNumber]
    IN  IF roundId # 0 /\ rounds[roundId].status = RandomRequested
        THEN /\ rounds' = [rounds EXCEPT ![roundId].entropyRandom = randomValue,
                                         ![roundId].status = RandomReady]
             /\ entropyDelivered' = entropyDelivered \cup {roundId}
             /\ lastTx' = Trace("entropyCallback", "entropy", roundId, "", TRUE)
             /\ UNCHANGED <<roundCounter, sequenceToRound, operator, bets,
                            claimablePayouts, roundFinalMultipliers, roundSettled,
                            tokenBalance, entropySeq>>
        ELSE Revert("entropyCallback", "entropy", roundId, "")

revealServerSeed_NoStatusCheck(sender, roundId, serverSeed) ==
    IF keccak256(serverSeed) = rounds[roundId].serverSeedHash
    THEN /\ rounds' = [rounds EXCEPT ![roundId].serverSeed = serverSeed,
                                     ![roundId].status = SeedRevealed]
         /\ lastTx' = Trace("revealServerSeed", sender, roundId, serverSeed, TRUE)
         /\ UNCHANGED <<roundCounter, sequenceToRound, operator, bets,
                        claimablePayouts, roundFinalMultipliers, roundSettled,
                        tokenBalance, entropySeq, entropyDelivered>>
    ELSE Revert("revealServerSeed", sender, roundId, serverSeed)

revealServerSeed_NoHashCheck(sender, roundId, serverSeed) ==
    IF rounds[roundId].status = RandomReady
    THEN /\ rounds' = [rounds EXCEPT ![roundId].serverSeed = serverSeed,
                                     ![roundId].status = SeedRevealed]
         /\ lastTx' = Trace("revealServerSeed", sender, roundId, serverSeed, TRUE)
         /\ UNCHANGED <<roundCounter, sequenceToRound, operator, bets,
                        claimablePayouts, roundFinalMultipliers, roundSettled,
                        tokenBalance, entropySeq, entropyDelivered>>
    ELSE Revert("revealServerSeed", sender, roundId, serverSeed)

revealServerSeed(sender, roundId, serverSeed) ==
    LET round == rounds[roundId]
        computedHash == keccak256(serverSeed)
    IN  IF round.status = RandomReady /\ computedHash = round.serverSeedHash
        THEN /\ rounds' = [rounds EXCEPT ![roundId].serverSeed = serverSeed,
                                         ![roundId].status = SeedRevealed]
             /\ lastTx' = Trace("revealServerSeed", sender, roundId, serverSeed, TRUE)
             /\ UNCHANGED <<roundCounter, sequenceToRound, operator, bets,
                            claimablePayouts, roundFinalMultipliers, roundSettled,
                            tokenBalance, entropySeq, entropyDelivered>>
        ELSE Revert("revealServerSeed", sender, roundId, serverSeed)

setOperator(sender, newOperator) ==
    IF sender = operator
    THEN /\ operator' = newOperator
         /\ lastTx' = Trace("setOperator", sender, 0, "", TRUE)
         /\ UNCHANGED <<rounds, roundCounter, sequenceToRound, bets,
                        claimablePayouts, roundFinalMultipliers, roundSettled,
                        tokenBalance, entropySeq, entropyDelivered>>
    ELSE Revert("setOperator", sender, 0, "")

placeBet_NoExistingBetCheck(sender, roundId, amount, transferOk) ==
    IF /\ amount > 0
       /\ amount <= MAX_BET
       /\ ~roundSettled[roundId]
       /\ rounds[roundId].serverSeedHash # ZeroHash
       /\ rounds[roundId].status \in {Created, RandomRequested, RandomReady}
       /\ transferOk
    THEN /\ tokenBalance' = tokenBalance + amount
         /\ bets' = [bets EXCEPT ![roundId][sender] =
                       [amount |-> amount, cashOutMultiplier |-> 0,
                        settled |-> FALSE]]
         /\ lastTx' = Trace("placeBet", sender, roundId, "", TRUE)
         /\ UNCHANGED <<rounds, roundCounter, sequenceToRound, operator,
                        claimablePayouts, roundFinalMultipliers, roundSettled,
                        entropySeq, entropyDelivered>>
    ELSE Revert("placeBet", sender, roundId, "")

\* transferOk: token.transferFrom(msg.sender, address(this), amount) succeeds
placeBet(sender, roundId, amount, transferOk) ==
    LET round == rounds[roundId]
    IN  IF /\ amount > 0
           /\ amount <= MAX_BET
           /\ ~roundSettled[roundId]
           /\ round.serverSeedHash # ZeroHash
           /\ round.status \in {Created, RandomRequested, RandomReady}
           /\ bets[roundId][sender].amount = 0
           /\ transferOk
        THEN /\ tokenBalance' = tokenBalance + amount
             /\ bets' = [bets EXCEPT ![roundId][sender] =
                           [amount |-> amount, cashOutMultiplier |-> 0,
                            settled |-> FALSE]]
             /\ lastTx' = Trace("placeBet", sender, roundId, "", TRUE)
             /\ UNCHANGED <<rounds, roundCounter, sequenceToRound, operator,
                            claimablePayouts, roundFinalMultipliers, roundSettled,
                            entropySeq, entropyDelivered>>
        ELSE Revert("placeBet", sender, roundId, "")

settleRound_NoSettledCheck(sender, roundId, finalMultiplier, serverSeed) ==
    IF /\ sender = operator
       /\ rounds[roundId].status = SeedRevealed
       /\ finalMultiplier >= E18
       /\ keccak256(serverSeed) = rounds[roundId].serverSeedHash
    THEN /\ roundSettled' = [roundSettled EXCEPT ![roundId] = TRUE]
         /\ roundFinalMultipliers' =
                [roundFinalMultipliers EXCEPT ![roundId] = finalMultiplier]
         /\ lastTx' = Trace("settleRound", sender, roundId, serverSeed, TRUE)
         /\ UNCHANGED <<rounds, roundCounter, sequenceToRound, operator, bets,
                        claimablePayouts, tokenBalance, entropySeq,
                        entropyDelivered>>
    ELSE Revert("settleRound", sender, roundId, serverSeed)

settleRound(sender, roundId, finalMultiplier, serverSeed) ==
    LET round == rounds[roundId]
        computedHash == keccak256(serverSeed)
    IN  IF /\ sender = operator
           /\ round.status = SeedRevealed
           /\ ~roundSettled[roundId]
           /\ finalMultiplier >= E18
           /\ computedHash = round.serverSeedHash
        THEN /\ roundSettled' = [roundSettled EXCEPT ![roundId] = TRUE]
             /\ roundFinalMultipliers' =
                    [roundFinalMultipliers EXCEPT ![roundId] = finalMultiplier]
             /\ lastTx' = Trace("settleRound", sender, roundId, serverSeed, TRUE)
             /\ UNCHANGED <<rounds, roundCounter, sequenceToRound, operator, bets,
                            claimablePayouts, tokenBalance, entropySeq,
                            entropyDelivered>>
        ELSE Revert("settleRound", sender, roundId, serverSeed)

RECURSIVE cashOutLoop_NoSettledCheck(_, _, _, _, _)
cashOutLoop_NoSettledCheck(cashOuts, i, finalMultiplier, b, cp) ==
    IF i > Len(cashOuts)
    THEN [ok |-> TRUE, bets |-> b, claimable |-> cp]
    ELSE LET wallet == cashOuts[i].wallet
             multiplier == cashOuts[i].multiplier
             bet == b[wallet]
             payoutBeforeFee == (bet.amount * multiplier) \div E18
             payout == (payoutBeforeFee * (BPS_DENOMINATOR - HOUSE_EDGE_BPS))
                           \div BPS_DENOMINATOR
             maxWinPerPlayer == (tokenBalance * MAX_WIN_PERCENTAGE_BPS)
                                    \div BPS_DENOMINATOR
             capped == IF payout > maxWinPerPlayer THEN maxWinPerPlayer ELSE payout
         IN  IF /\ bet.amount > 0
                /\ multiplier >= E18
                /\ multiplier <= finalMultiplier
             THEN cashOutLoop_NoSettledCheck(cashOuts, i + 1, finalMultiplier,
                      [b EXCEPT ![wallet] = [amount |-> bet.amount,
                                             cashOutMultiplier |-> multiplier,
                                             settled |-> TRUE]],
                      [cp EXCEPT ![wallet] = @ + capped])
             ELSE [ok |-> FALSE, bets |-> b, claimable |-> cp]

RECURSIVE cashOutLoop_NoCap(_, _, _, _, _)
cashOutLoop_NoCap(cashOuts, i, finalMultiplier, b, cp) ==
    IF i > Len(cashOuts)
    THEN [ok |-> TRUE, bets |-> b, claimable |-> cp]
    ELSE LET wallet == cashOuts[i].wallet
             multiplier == cashOuts[i].multiplier
             bet == b[wallet]
             payoutBeforeFee == (bet.amount * multiplier) \div E18
             payout == (payoutBeforeFee * (BPS_DENOMINATOR - HOUSE_EDGE_BPS))
                           \div BPS_DENOMINATOR
             maxWinPerPlayer == (tokenBalance * MAX_WIN_PERCENTAGE_BPS)
                                    \div BPS_DENOMINATOR
             capped == payout
         IN  IF /\ bet.amount > 0
                /\ ~bet.settled
                /\ multiplier >= E18
                /\ multiplier <= finalMultiplier
             THEN cashOutLoop_NoCap(cashOuts, i + 1, finalMultiplier,
                      [b EXCEPT ![wallet] = [amount |-> bet.amount,
                                             cashOutMultiplier |-> multiplier,
                                             settled |-> TRUE]],
                      [cp EXCEPT ![wallet] = @ + capped])
             ELSE [ok |-> FALSE, bets |-> b, claimable |-> cp]

\* The loop of processCashOuts from entry i on, over the round's bets b and
\* the claimable balances cp; ok is FALSE when a require of the loop fails.
RECURSIVE cashOutLoop(_, _, _, _, _)
cashOutLoop(cashOuts, i, finalMultiplier, b, cp) ==
    IF i > Len(cashOuts)
    THEN [ok |-> TRUE, bets |-> b, claimable |-> cp]
    ELSE LET wallet == cashOuts[i].wallet
             multiplier == cashOuts[i].multiplier
             bet == b[wallet]
             payoutBeforeFee == (bet.amount * multiplier) \div E18
             payout == (payoutBeforeFee * (BPS_DENOMINATOR - HOUSE_EDGE_BPS))
                           \div BPS_DENOMINATOR
             maxWinPerPlayer == (tokenBalance * MAX_WIN_PERCENTAGE_BPS)
                                    \div BPS_DENOMINATOR
             capped == IF payout > maxWinPerPlayer THEN maxWinPerPlayer ELSE payout
         IN  IF /\ bet.amount > 0
                /\ ~bet.settled
                /\ multiplier >= E18
                /\ multiplier <= finalMultiplier
             THEN cashOutLoop(cashOuts, i + 1, finalMultiplier,
                      [b EXCEPT ![wallet] = [amount |-> bet.amount,
                                             cashOutMultiplier |-> multiplier,
                                             settled |-> TRUE]],
                      [cp EXCEPT ![wallet] = @ + capped])
             ELSE [ok |-> FALSE, bets |-> b, claimable |-> cp]

processCashOuts(sender, roundId, cashOuts) ==
    LET finalMultiplier == roundFinalMultipliers[roundId]
        done == cashOutLoop(cashOuts, 1, finalMultiplier, bets[roundId],
                            claimablePayouts)
    IN  IF /\ sender = operator
           /\ roundSettled[roundId]
           /\ finalMultiplier > 0
           /\ done.ok
        THEN /\ bets' = [bets EXCEPT ![roundId] = done.bets]
             /\ claimablePayouts' = done.claimable
             /\ lastTx' = Trace("processCashOuts", sender, roundId, "", TRUE)
             /\ UNCHANGED <<rounds, roundCounter, sequenceToRound, operator,
                            roundFinalMultipliers, roundSettled, tokenBalance,
                            entropySeq, entropyDelivered>>
        ELSE Revert("processCashOuts", sender, roundId, "")

\* token.transfer succeeds when the contract holds the amount
claimAllPayouts(sender) ==
    LET total == claimablePayouts[sender]
    IN  IF total > 0 /\ tokenBalance >= total
        THEN /\ claimablePayouts' = [claimablePayouts EXCEPT ![sender] = 0]
             /\ tokenBalance' = tokenBalance - total
             /\ lastTx' = Trace("claimAllPayouts", sender, 0, "", TRUE)
             /\ UNCHANGED <<rounds, roundCounter, sequenceToRound, operator, bets,
                            roundFinalMultipliers, roundSettled, entropySeq,
                            entropyDelivered>>
        ELSE Revert("claimAllPayouts", sender, 0, "")

withdrawHouseEdge(sender) ==
    IF sender = operator /\ tokenBalance > 0
    THEN /\ tokenBalance' = 0
         /\ lastTx' = Trace("withdrawHouseEdge", sender, 0, "", TRUE)
         /\ UNCHANGED <<rounds, roundCounter, sequenceToRound, operator, bets,
                        claimablePayouts, roundFinalMultipliers, roundSettled,
                        entropySeq, entropyDelivered>>
    ELSE Revert("withdrawHouseEdge", sender, 0, "")

\* =================================================================== server
\* ------------------------------------------------------------ server values
PollInterval == 3                 \* const pollInterval, seconds
MaxWaitTime == MaxPolls * PollInterval   \* let maxWaitTime, seconds
BATCH_SIZE == 15
One == 100000                     \* 1.00x in the unit of currentValue
BetAmount == 1 * E18              \* what a player stakes in the server's runs

Players == {"alice", "bob"}          \* the addresses clients cash out for
Bettors == {"alice"}                 \* the addresses that place bets
\* what generateServerSeed returns
ServerSeeds == {"seedA"}
\* Wallet strings as clients send them; "0xab" and "0xAB" spell one address.
WalletStrings == {"0xab", "0xAB", "0xcd"}
toLowerCase(w) == IF w = "0xAB" THEN "0xab" ELSE w
\* the address a wallet string spells; strings other than these two spell
\* addresses of their own
AddressOf(w) ==
    IF toLowerCase(w) = "0xab" THEN "alice"
    ELSE IF toLowerCase(w) = "0xcd" THEN "bob"
    ELSE toLowerCase(w)

Max(a, b) == IF a >= b THEN a ELSE b
Min(a, b) == IF a <= b THEN a ELSE b

\* Math.round(x * 100) / 100 of a price x >= 0 given in thousandths: cents.
RoundToCents(milli) == (milli + 5) \div 10

\* Math.floor(x * 100000) of a two-decimal x given in cents.  The double
\* product falls just below the integer for these cents (of those up to
\* 2.00x), and the floor then yields one less.
LossyCents == {57, 58, 113, 114, 115, 116}
FloorValue(cents) ==
    IF cents \in LossyCents THEN cents * 1000 - 1 ELSE cents * 1000

\* ethers.parseUnits(m.toFixed(18), 18) of a multiplier in currentValue units
ParseUnits(m) == (m * E18) \div One

GameUpdate(currentValue, open, high, low, close, gameState) ==
    [currentValue |-> currentValue, open |-> open, high |-> high,
     low |-> low, close |-> close, gameState |-> gameState]

\* The tick loop of generateCrashGame from tick i (from 0) on.  final is in
\* cents, minPrice in thousandths; price[i + 1] is what the random walk makes
\* of currentPrice at tick i before the clamp, in thousandths; sofar holds the
\* ticks pushed before tick i.
RECURSIVE tickLoop(_, _, _, _, _, _, _)
tickLoop(i, gameTicks, final, minPrice, price, previousMultiplier, sofar) ==
    IF i >= gameTicks
    THEN sofar
    ELSE LET currentPrice == Max(minPrice, Min(price[i + 1], final * 10))
             roundedMultiplier == RoundToCents(currentPrice)
             tickHigh == Max(previousMultiplier, roundedMultiplier)
             tickLow == Min(previousMultiplier, roundedMultiplier)
             isCrash == currentPrice >= final * 10 \/ i = gameTicks - 1
         IN  IF isCrash
             THEN Append(sofar,
                      GameUpdate(FloorValue(final), previousMultiplier,
                                 Max(previousMultiplier, final),
                                 Min(previousMultiplier, final), final, 3))
             ELSE tickLoop(i + 1, gameTicks, final, minPrice, price,
                      roundedMultiplier,
                      Append(sofar,
                          GameUpdate(FloorValue(roundedMultiplier),
                                     previousMultiplier, tickHigh, tickLow,
                                     roundedMultiplier, 2)))

\* generateCrashGame with the crash tick's high taken from tickHigh, as a
\* running tick's is
generateCrashGame_CrashHighFromTick(final, gameTicks, minPrice, price) ==
    LET ticks == tickLoop(0, gameTicks, final, minPrice, price, 100, <<>>)
        n == Len(ticks)
        currentPrice == Max(minPrice, Min(price[n], final * 10))
    IN  [updates |-> [ticks EXCEPT ![n].high =
                         Max(ticks[n].open, RoundToCents(currentPrice))],
         finalMultiplier |-> final]

\* generateCrashGame with previousMultiplier left at 1.00: every candle
\* opens at 1.00
generateCrashGame_OpensAtOne(final, gameTicks, minPrice, price) ==
    LET ticks == tickLoop(0, gameTicks, final, minPrice, price, 100, <<>>)
    IN  [updates |-> [k \in 1..Len(ticks) |->
                         [ticks[k] EXCEPT !.open = 100,
                                          !.high = Max(100, ticks[k].close),
                                          !.low = Min(100, ticks[k].close)]],
         finalMultiplier |-> final]

generateCrashGame(final, gameTicks, minPrice, price) ==
    [updates |-> tickLoop(0, gameTicks, final, minPrice, price, 100, <<>>),
     finalMultiplier |-> final]

\* What the hash-derived randoms can make of a game: the final multiplier
\* (cents), the number of ticks, minPrice and the walk (thousandths).
FinalMultipliers == {100, 115}
MinPrices == {400}
WalkPrices == {950, 1146, 1300}
GameResults ==
    {generateCrashGame(f, n, lo, w) :
        f \in FinalMultipliers, lo \in MinPrices,
        n \in 1..MaxTicks, w \in [1..MaxTicks -> WalkPrices]}

\* An absent key of activeRounds, of activeCashOuts; a free request slot.
NoActiveRound ==
    [present |-> FALSE, currentMultiplier |-> 0, state |-> "none",
     finalMultiplier |-> 0]
NoCashOuts == [present |-> FALSE, list |-> <<>>]
NoRequest ==
    [stage |-> "none", roundId |-> 0, multiplier |-> 0, walletAddress |-> "",
     live |-> 0, cashedOut |-> FALSE]
NoResponse ==
    [roundId |-> 0, multiplier |-> 0, walletAddress |-> "", success |-> FALSE,
     error |-> "none"]

\* ---------------------------------------- generateCrashGame and VerifyGame
\* Bytes are sequences of numbers below 256, strings sequences of characters.
\* A random draw is carried as its numerator over MaxHash, a multiplier as
\* the fraction num / den, where den = 0 stands for Infinity.
MaxHash == 502                   \* maxUint256: the largest digest
WordSize == 32                   \* zeroPadValue(..., 32), pad(..., { size: 32 })
HouseEdgeMilli == 15             \* const houseEdge = 0.015, in thousandths
MaxMultiplier == 10000           \* Math.min(rawMultiplier, 10000)
MsPerDay == 86400000

Digits == <<"0", "1", "2", "3", "4", "5", "6", "7", "8", "9">>
HexDigits == Digits \o <<"a", "b", "c", "d", "e", "f">>
IndexOf(list, ch) == CHOOSE i \in 1..Len(list) : list[i] = ch
IsIn(list, ch) == \E i \in 1..Len(list) : list[i] = ch

\* n.toString() of a number n >= 0: its decimal digits
RECURSIVE toString(_)
toString(n) ==
    IF n < 10 THEN <<Digits[n + 1]>>
    ELSE Append(toString(n \div 10), Digits[(n % 10) + 1])

\* BigInt(s), parseInt(s) of a string of decimal digits
RECURSIVE parseInt(_)
parseInt(s) ==
    IF Len(s) = 0 THEN 0
    ELSE 10 * parseInt(SubSeq(s, 1, Len(s) - 1))
           + (IndexOf(Digits, s[Len(s)]) - 1)

\* The UTF-8 code of a character of the seeds
charCodeAt(ch) ==
    CASE IsIn(Digits, ch) -> 48 + (IndexOf(Digits, ch) - 1)
      [] ch = "x" -> 120
      [] OTHER -> 97 + (IndexOf(HexDigits, ch) - 11)

\* ethers.toUtf8Bytes(s), and viem's stringToBytes(s)
toUtf8Bytes(s) == [i \in 1..Len(s) |-> charCodeAt(s[i])]

\* viem's isHex(s): /^0x[0-9a-fA-F]*$/
isHex(s) ==
    /\ Len(s) >= 2
    /\ s[1] = "0"
    /\ s[2] = "x"
    /\ \A i \in 3..Len(s) : IsIn(HexDigits, s[i])

\* viem's hexToBytes(s): two digits a byte, an odd run padded with a 0
hexToBytes(s) ==
    LET run == SubSeq(s, 3, Len(s))
        hex == IF Len(run) % 2 = 1 THEN <<"0">> \o run ELSE run
    IN  [i \in 1..(Len(hex) \div 2) |->
            16 * (IndexOf(HexDigits, hex[2 * i - 1]) - 1)
               + (IndexOf(HexDigits, hex[2 * i]) - 1)]

\* viem's toBytes(s) of a string: hex strings are decoded, others encoded
toBytes(s) == IF isHex(s) THEN hexToBytes(s) ELSE toUtf8Bytes(s)

\* zeroPadValue(toBeHex(n), 32), pad(toHex(n), { size: 32 }): the big-endian
\* word of a number n < 2^31
Pad32(n) ==
    [i \in 1..WordSize |->
        IF WordSize - i > 3 THEN 0 ELSE (n \div (256 ^ (WordSize - i))) % 256]

\* keccak256 of bytes, as a number: a digest in 0..MaxHash that depends on
\* every byte and on the length.  It is the value of the bytes, each taken
\* plus one, as digits to the base 257, modulo MaxHash + 1; absorb(bytes,
\* lo, hi) is that value of bytes[lo..hi], and Shift[k] is 257^k.
RECURSIVE shift(_)
shift(k) == IF k = 0 THEN 1 ELSE (shift(k - 1) * 257) % (MaxHash + 1)
Shift == [k \in 0..(4 * WordSize) |-> shift(k)]
RECURSIVE absorb(_, _, _)
absorb(bytes, lo, hi) ==
    IF lo > hi THEN 0
    ELSE IF lo = hi THEN (bytes[lo] + 1) % (MaxHash + 1)
    ELSE LET mid == (lo + hi) \div 2
         IN  (absorb(bytes, lo, mid) * Shift[hi - mid]
                + absorb(bytes, mid + 1, hi)) % (MaxHash + 1)
keccak256Bytes(bytes) == absorb(bytes, 1, Len(bytes))

\* The backend's deriveSeed
deriveSeed(vrfRandom, roundId, serverSeed, chainId) ==
    LET vrfBytes == Pad32(parseInt(vrfRandom))
        roundBytes == Pad32(roundId)
        seedBytes == toUtf8Bytes(serverSeed)
        chainBytes == Pad32(chainId)
    IN  keccak256Bytes(vrfBytes \o roundBytes \o seedBytes \o chainBytes)

\* getRandom(i) of generateCrashGame: Number(hash) / Number(maxUint256), the
\* numerator
getRandom(derivedSeed, i) ==
    keccak256Bytes(Pad32(derivedSeed) \o Pad32(i))

\* (1 - houseEdge) / (1 - p) with p = houseEdge + r0 * (1 - houseEdge); both
\* sides of the fraction are in the unit 1 / (1000 * MaxHash).
rawMultiplierOf(r0) ==
    LET p == HouseEdgeMilli * MaxHash + r0 * (1000 - HouseEdgeMilli)
    IN  [num |-> (1000 - HouseEdgeMilli) * MaxHash,
         den |-> 1000 * MaxHash - p]

crashMultiplierOf_NoUpperClamp(raw) ==
    IF raw.den # 0 /\ raw.num < raw.den THEN [num |-> 1, den |-> 1] ELSE raw

crashMultiplierOf_ClampAbove(raw) ==
    LET capped == IF raw.den = 0 \/ raw.den <= (raw.num - 1) \div MaxMultiplier
                  THEN [num |-> MaxMultiplier, den |-> 1]
                  ELSE raw
    IN  IF 100 * capped.num < 101 * capped.den
        THEN [num |-> 101, den |-> 100]
        ELSE capped

\* Math.max(1.00, Math.min(rawMultiplier, 10000))
crashMultiplierOf(raw) ==
    LET capped == IF raw.den = 0 \/ raw.den <= (raw.num - 1) \div MaxMultiplier
                  THEN [num |-> MaxMultiplier, den |-> 1]
                  ELSE raw
    IN  IF capped.num < capped.den THEN [num |-> 1, den |-> 1] ELSE capped

\* Math.round(x * 100) / 100: the hundredths, halves rounded up
finalMultiplierOf(crash) ==
    IF crash.den = 0 THEN crash
    ELSE [num |-> (200 * crash.num + crash.den) \div (2 * crash.den),
          den |-> 100]

\* minPrice in thousandths, trendStrength in hundredths, volatilityBase in
\* ten-thousandths, volatilityDecay in thousandths, from r2 .. r5
tradingParameters(derivedSeed) ==
    [minPrice |-> 400 + (getRandom(derivedSeed, 2) * 300) \div MaxHash,
     trendStrength |-> 15 + (getRandom(derivedSeed, 3) * 30) \div MaxHash,
     volatilityBase |-> 150 + (getRandom(derivedSeed, 4) * 200) \div MaxHash,
     volatilityDecay |-> 500 + (getRandom(derivedSeed, 5) * 400) \div MaxHash]

\* Math.ceil(duration / tickIntervalMs), duration 3000 + Math.floor(r1 * 27000)
totalTicks(r1, tickIntervalMs) ==
    LET duration == 3000 + (r1 * 27000) \div MaxHash
    IN  (duration + tickIntervalMs - 1) \div tickIntervalMs

\* Math.pow(x, e) for 0 <= x <= 1 and 0 < e <= 1, both in thousandths, to
\* the first order in 1 - e: x * (1 + (1 - e) * (1 - x)).
Pow(x, e) == x + ((1000 - e) * x * (1000 - x)) \div 1000000

\* The random walk of the tick loop: the prices currentPrice * (1 +
\* priceChange) of the ticks from i on, in thousandths, before the clamp to
\* [minPrice, maxPrice]; a price past maxPrice is carried as maxPrice, one
\* below zero as zero.  The walk itself runs in cents; final is in cents.
RECURSIVE walk(_, _, _, _, _, _, _)
walk(i, gameTicks, currentPrice, derivedSeed, parameters, final, sofar) ==
    IF i >= gameTicks
    THEN sofar
    ELSE LET progress == (i * 1000) \div gameTicks
             r1 == getRandom(derivedSeed, i + 10)
             targetPrice == 100 + ((final - 100) * Pow(progress, 800)) \div 1000
             volatility ==
                 (parameters.volatilityBase
                    * Pow(1000 - progress, parameters.volatilityDecay)) \div 1000
             directionBias ==
                 ((targetPrice - currentPrice) * parameters.trendStrength) \div 10
             randomMove == (2000 * r1 - 1000 * MaxHash) \div MaxHash
             priceChange == directionBias + (randomMove * volatility) \div 10000
             reachesMax == (1000 * final + currentPrice - 1) \div currentPrice
             moved == IF 1000 + priceChange <= 0 THEN 0
                      ELSE IF 1000 + priceChange >= reachesMax THEN final
                      ELSE (currentPrice * (1000 + priceChange)) \div 1000
             clamped == Max(parameters.minPrice, Min(moved * 10, final * 10))
         IN  walk(i + 1, gameTicks, clamped \div 10, derivedSeed, parameters,
                  final, Append(sofar, moved * 10))

\* bar.time of the ticks: the UTC day of gameStartTime + i * tickIntervalMs
\* / 1000, as the number of the day
barTimes(startTime, tickIntervalMs, n) ==
    [k \in 1..n |-> (startTime * 1000 + (k - 1) * tickIntervalMs) \div MsPerDay]

GameInput(roundId, vrfRandom, serverSeed, chainId, startTimestamp, tickIntervalMs) ==
    [roundId |-> roundId, vrfRandom |-> vrfRandom, serverSeed |-> serverSeed,
     chainId |-> chainId, startTimestamp |-> startTimestamp,
     tickIntervalMs |-> tickIntervalMs]

CrashGameResult_ReadsClock(input) ==
    LET derivedSeed == deriveSeed(input.vrfRandom, input.roundId,
                                  input.serverSeed, input.chainId)
        raw == rawMultiplierOf(getRandom(derivedSeed, 0))
        final == finalMultiplierOf(crashMultiplierOf(raw))
        parameters == tradingParameters(derivedSeed)
        gameTicks == totalTicks(getRandom(derivedSeed, 1), input.tickIntervalMs)
        game == generateCrashGame(final.num, gameTicks, parameters.minPrice,
                    walk(0, gameTicks, 100, derivedSeed, parameters, final.num,
                         <<>>))
    IN  [updates |-> game.updates,
         barTimes |-> barTimes(now * (MsPerDay \div 1000), input.tickIntervalMs,
                               Len(game.updates)),
         finalMultiplier |-> final,
         rawMultiplier |-> raw]

\* generateCrashGame(input) as a whole: the ticks, with the bar times kept
\* beside them, the final multiplier and the raw one.
CrashGameResult(input) ==
    LET derivedSeed == deriveSeed(input.vrfRandom, input.roundId,
                                  input.serverSeed, input.chainId)
        startTime == parseInt(input.startTimestamp)
        raw == rawMultiplierOf(getRandom(derivedSeed, 0))
        final == finalMultiplierOf(crashMultiplierOf(raw))
        parameters == tradingParameters(derivedSeed)
        gameTicks == totalTicks(getRandom(derivedSeed, 1), input.tickIntervalMs)
        game == generateCrashGame(final.num, gameTicks, parameters.minPrice,
                    walk(0, gameTicks, 100, derivedSeed, parameters, final.num,
                         <<>>))
    IN  [updates |-> game.updates,
         barTimes |-> barTimes(startTime, input.tickIntervalMs,
                               Len(game.updates)),
         finalMultiplier |-> final,
         rawMultiplier |-> raw]

\* VerifyGame's deriveSeed
VerifyGame_deriveSeed(vrfRandom, roundId, serverSeed, chainId) ==
    LET vrfBytes == Pad32(parseInt(vrfRandom))
        roundBytes == Pad32(roundId)
        seedBytes == toBytes(serverSeed)
        chainBytes == Pad32(chainId)
    IN  keccak256Bytes(vrfBytes \o roundBytes \o seedBytes \o chainBytes)

\* VerifyGame's getRandom, the numerator
VerifyGame_getRandom(derivedSeed, i) ==
    keccak256Bytes(Pad32(derivedSeed) \o Pad32(i))

\* What VerifyGame computes of (entropyRandom, roundId, serverSeed, chainId):
\* the finalMultiplier it shows.
VerifyGame(entropyRandom, roundId, serverSeed, chainId) ==
    LET entropyRandomStr == toString(entropyRandom)
        derivedSeed == VerifyGame_deriveSeed(entropyRandomStr, roundId,
                                             serverSeed, chainId)
        r0 == VerifyGame_getRandom(derivedSeed, 0)
        p == HouseEdgeMilli * MaxHash + r0 * (1000 - HouseEdgeMilli)
        rawMultiplier == [num |-> (1000 - HouseEdgeMilli) * MaxHash,
                          den |-> 1000 * MaxHash - p]
        capped == IF rawMultiplier.den = 0
                     \/ rawMultiplier.den <= (rawMultiplier.num - 1) \div MaxMultiplier
                  THEN [num |-> MaxMultiplier, den |-> 1]
                  ELSE rawMultiplier
        crashMultiplier == IF capped.num < capped.den
                           THEN [num |-> 1, den |-> 1] ELSE capped
    IN  IF crashMultiplier.den = 0 THEN crashMultiplier
        ELSE [num |-> (200 * crashMultiplier.num + crashMultiplier.den)
                          \div (2 * crashMultiplier.den),
              den |-> 100]

\* The inputs of the generator and of the verifier.
EntropyRandoms == 0..MaxHash
ServerSeedStrings == {<<"a", "b">>, <<"c", "d">>, <<"0", "x", "a", "b">>}
ChainIds == {1, 10143}
StartTimestamps == {<<"8", "6", "3", "9", "8">>, <<"1", "7", "2", "8", "0", "0">>}
TickIntervals == {5000, 15000}
DefaultInput ==
    GameInput(1, <<"0">>, <<"a", "b">>, 10143, <<"8", "6", "3", "9", "8">>, 5000)
GameInputs ==
    {[DefaultInput EXCEPT !.vrfRandom = toString(n)] : n \in EntropyRandoms}
    \cup {GameInput(r, toString(n), s, c, t, ms) :
             r \in RoundIds, n \in 0..MaxEntropy, s \in ServerSeedStrings,
             c \in ChainIds, t \in StartTimestamps, ms \in TickIntervals}

NotVerified == [num |-> 0, den |-> 100]
NoGenerator == UNCHANGED <<gameInput, now, results, genCalls, verified>>
GenInit ==
    /\ gameInput = DefaultInput
    /\ now = 0
    /\ results = {}
    /\ genCalls = 0
    /\ verified = NotVerified

\* ---------------------------------------------------- the useWebSocket hook
reconnect == TRUE       \* reconnect = true, the default
SocketIds == 1..MaxSockets
NoHook == UNCHANGED hookVars
\* Before the component mounts
HookInit ==
    /\ sockets = [s \in SocketIds |-> "none"]
    /\ wsRef = 0
    /\ retryCountRef = 0
    /\ reconnectTimeoutRef = 0
    /\ timers = {}
    /\ mounted = FALSE
    /\ stayClosed = FALSE
    /\ sinceOpen = 0

\* ------------------------------------------------------ the WebSocket side
MAX_CHAT_MESSAGES == 4
MAX_RECENT_ROUNDS == 6
ClientIds == 1..MaxClients

\* null, for latestUpdate
NoUpdate == GameUpdate(0, 0, 0, 0, 0, 0)
\* the 1.00x update runGame makes up when the round starts running
syntheticStartUpdate == GameUpdate(One, 100, 100, 100, 100, 2)

\* What a frame can carry; a frame fills the fields of its type and leaves
\* the others as they are here.  roundId 0 stands for null.
NoChat == [address |-> "", message |-> ""]
NoState ==
    [roundId |-> 0, gameState |-> "none", currentMultiplier |-> 0,
     bettingCloseTime |-> FALSE, latestUpdate |-> NoUpdate, recentRounds |-> <<>>]
Frame(type) ==
    [type |-> type, status |-> "", roundId |-> 0, serverSeed |-> "",
     update |-> NoUpdate, state |-> NoState, recentChatMessages |-> <<>>,
     chat |-> NoChat]

\* JSON.stringify({ type: 'status', status, ...data })
StatusFrame(status, roundId, serverSeed) ==
    [Frame("status") EXCEPT !.status = status, !.roundId = roundId,
                            !.serverSeed = serverSeed]
\* JSON.stringify({ type: 'update', ...updateWithTimestamp })
UpdateFrame(update) ==
    [Frame("update") EXCEPT !.update = update]
\* JSON.stringify({ type: 'chat_message', ...chatMessage })
ChatFrame(chatMessage) ==
    [Frame("chat_message") EXCEPT !.chat = chatMessage]

\* list.slice(-MAX_CHAT_MESSAGES)
lastChatMessages(list) ==
    IF Len(list) > MAX_CHAT_MESSAGES
    THEN SubSeq(list, Len(list) - MAX_CHAT_MESSAGES + 1, Len(list))
    ELSE list

\* JSON.stringify({ type: 'state_snapshot', ...currentGameState,
\*                  recentChatMessages: chatMessages.slice(-MAX_CHAT_MESSAGES) })
SnapshotFrame(state, messages) ==
    [Frame("state_snapshot") EXCEPT !.state = state,
                                    !.recentChatMessages = lastChatMessages(messages)]

\* clients.forEach(client => { if (client.readyState === WebSocket.OPEN)
\*                               client.send(message) }), frame after frame
Broadcast(frames) ==
    inbox' = [c \in ClientIds |->
                 IF clients[c] = "open" THEN inbox[c] \o frames ELSE inbox[c]]

\* The step sends no frame to the connections and leaves the game state the
\* snapshots are made of.
NoBroadcast == UNCHANGED wsVars

\* No connection opens or closes and no chat message arrives in the step.
NoClientEvent == UNCHANGED <<clients, chatMessages, chatsSent>>

\* currentGameState.recentRounds.push(entry), then shift() past six entries
pushRecentRound(recentRounds, entry) ==
    IF Len(recentRounds) + 1 > MAX_RECENT_ROUNDS
    THEN Tail(Append(recentRounds, entry))
    ELSE Append(recentRounds, entry)

WsInit ==
    /\ clients = [c \in ClientIds |-> "none"]
    /\ inbox = [c \in ClientIds |-> <<>>]
    /\ currentGameState =
         [roundId |-> 0, gameState |-> "preparing", currentMultiplier |-> One,
          bettingCloseTime |-> FALSE, latestUpdate |-> NoUpdate,
          recentRounds |-> <<>>]
    /\ chatMessages = <<>>
    /\ chatsSent = 0

HandlersInit ==
    /\ pc = "start"
    /\ games = 0
    /\ gameServerSeed = ""
    /\ currentRoundId = 0
    /\ waited = 0
    /\ updates = <<>>
    /\ gameFinalMultiplier = 0
    /\ tickIndex = 0
    /\ gameCashOuts = <<>>
    /\ batchIndex = 0
    /\ activeRounds = [r \in RoundIds |-> NoActiveRound]
    /\ activeCashOuts = [r \in RoundIds |-> NoCashOuts]
    /\ requests = [q \in 1..MaxRequests |-> NoRequest]
    /\ lastResponse = NoResponse
    /\ acked = {}
    /\ successCount = [r \in RoundIds |-> [w \in Players |-> 0]]
    /\ submitted = [r \in RoundIds |-> <<>>]
    /\ sentBatches = [r \in RoundIds |-> <<>>]
    /\ completed = {}
    /\ generated = [r \in RoundIds |-> 0]

ServerInit == WsInit /\ HandlersInit /\ GenInit

\* ------------------------------------------------------------------ runGame
\* One action per await of runGame: the action is what runs when the awaited
\* transaction, read or timer completes, up to the next await.  A call that
\* does not get through (the RPC fails, the transaction is not mined) leaves
\* the chain as it is and throws.

\* The step sends no cash_out_response.
NoOutput == lastResponse' = NoResponse

Throw_Halts ==
    /\ pc' = "halted"
    /\ gameServerSeed' = ""
    /\ currentRoundId' = 0
    /\ waited' = 0
    /\ updates' = <<>>
    /\ gameFinalMultiplier' = 0
    /\ tickIndex' = 0
    /\ gameCashOuts' = <<>>
    /\ batchIndex' = 0

\* An exception leaves runGame: its locals are gone; main's catch waits five
\* seconds and calls runGame again.
Throw ==
    /\ pc' = "start"
    /\ gameServerSeed' = ""
    /\ currentRoundId' = 0
    /\ waited' = 0
    /\ updates' = <<>>
    /\ gameFinalMultiplier' = 0
    /\ tickIndex' = 0
    /\ gameCashOuts' = <<>>
    /\ batchIndex' = 0

\* main calls runGame, which runs to its first await, createRound; callsAhead
\* caps the calls of a run of the model.
callRunGame(callsAhead) ==
    /\ pc = "start"
    /\ games < callsAhead
    /\ games' = games + 1
    /\ currentGameState' =
         [roundId |-> 0, gameState |-> "preparing", currentMultiplier |-> One,
          bettingCloseTime |-> FALSE, latestUpdate |-> NoUpdate,
          recentRounds |-> currentGameState.recentRounds]
    /\ Broadcast(<<StatusFrame("preparing_game", 0, "")>>)
    /\ NoClientEvent
    /\ NoGenerator
    /\ NoHook
    /\ \/ \E seed \in ServerSeeds :
            /\ createRound("operator", keccak256(seed))
            /\ gameServerSeed' = seed
            /\ currentRoundId' = roundCounter' - 1
            /\ pc' = "requestRandomness"
            /\ UNCHANGED <<waited, updates, gameFinalMultiplier, tickIndex,
                           gameCashOuts, batchIndex>>
       \/ /\ UNCHANGED contractVars
          /\ Throw
    /\ UNCHANGED <<mapVars, requests, historyVars>>
    /\ NoOutput

runGame_createRound == callRunGame(MaxGames)

\* requestAndWaitForEntropy up to the wait for the reveal delay; an exception
\* is caught by runGame, which goes on to create another round.
runGame_requestRandomness ==
    /\ UNCHANGED games
    /\ pc = "requestRandomness"
    /\ \/ /\ requestRandomness("operator", currentRoundId, TRUE)
          /\ pc' = IF rounds'[currentRoundId].status = RandomRequested
                   THEN "revealDelay" ELSE "retry"
       \/ /\ UNCHANGED contractVars
          /\ pc' = "retry"
    /\ waited' = 0
    /\ UNCHANGED <<gameServerSeed, currentRoundId, updates, gameFinalMultiplier,
                   tickIndex, gameCashOuts, batchIndex, mapVars, requests,
                   historyVars>>
    /\ NoOutput
    /\ NoBroadcast
    /\ NoGenerator
    /\ NoHook

\* The wait for the reveal delay, a look at the block number every second:
\* it ends with the target block, or with a failing read of the block number.
\* While the chain has not got there the step changes nothing.
runGame_revealDelay ==
    /\ UNCHANGED games
    /\ pc = "revealDelay"
    /\ \E readOk \in BOOLEAN : pc' = IF readOk THEN "poll" ELSE "retry"
    /\ UNCHANGED <<contractVars, gameServerSeed, currentRoundId, waited, updates,
                   gameFinalMultiplier, tickIndex, gameCashOuts, batchIndex,
                   mapVars, requests, historyVars>>
    /\ NoOutput
    /\ NoBroadcast
    /\ NoGenerator
    /\ NoHook

entropyReceived_AnyValue(readOk, currentRandom) ==
    readOk

\* readEntropyValue returned, and what it returned is not 0n
entropyReceived(readOk, currentRandom) ==
    readOk /\ currentRandom # 0

\* One turn of the polling loop.  With the entropy read, runGame generates
\* the game, registers the round and opens the betting.
runGame_pollEntropy ==
    /\ UNCHANGED games
    /\ pc = "poll"
    /\ \E readOk \in BOOLEAN :
         LET currentRandom == rounds[currentRoundId].entropyRandom
             nowWaited == waited + PollInterval
         IN  IF entropyReceived(readOk, currentRandom)
             THEN \E gameResult \in GameResults :
                    /\ updates' = gameResult.updates
                    /\ gameFinalMultiplier' = gameResult.finalMultiplier
                    /\ activeRounds' =
                         [activeRounds EXCEPT ![currentRoundId] =
                            [present |-> TRUE, currentMultiplier |-> One,
                             state |-> "betting", finalMultiplier |-> 0]]
                    /\ activeCashOuts' =
                         [activeCashOuts EXCEPT ![currentRoundId] =
                            [present |-> TRUE, list |-> <<>>]]
                    /\ generated' = [generated EXCEPT ![currentRoundId] =
                                        gameResult.finalMultiplier]
                    /\ waited' = 0
                    /\ pc' = "betting"
                    /\ currentGameState' =
                         [roundId |-> currentRoundId, gameState |-> "betting",
                          currentMultiplier |-> One, bettingCloseTime |-> TRUE,
                          latestUpdate |-> NoUpdate,
                          recentRounds |-> currentGameState.recentRounds]
                    /\ Broadcast(<<StatusFrame("betting_open", currentRoundId, "")>>)
             ELSE /\ waited' = nowWaited
                  /\ pc' = IF nowWaited < MaxWaitTime THEN "poll" ELSE "retry"
                  /\ UNCHANGED <<updates, gameFinalMultiplier, mapVars, generated,
                                 inbox, currentGameState>>
    /\ NoClientEvent
    /\ NoGenerator
    /\ NoHook
    /\ UNCHANGED <<contractVars, gameServerSeed, currentRoundId, tickIndex,
                   gameCashOuts, batchIndex, requests, acked, successCount,
                   submitted, sentBatches, completed>>
    /\ NoOutput

runGame_retryCreateRound_KeepsRound ==
    /\ UNCHANGED games
    /\ pc = "retry"
    /\ \/ /\ createRound("operator", keccak256(gameServerSeed))
          /\ currentRoundId' = currentRoundId
          /\ pc' = "requestRandomness"
          /\ waited' = 0
          /\ UNCHANGED <<gameServerSeed, updates, gameFinalMultiplier, tickIndex,
                         gameCashOuts, batchIndex>>
       \/ /\ UNCHANGED contractVars
          /\ Throw
    /\ UNCHANGED <<mapVars, requests, historyVars>>
    /\ NoOutput
    /\ NoBroadcast
    /\ NoGenerator
    /\ NoHook

\* The catch of the entropy loop: a new round with the same commitment.
runGame_retryCreateRound ==
    /\ UNCHANGED games
    /\ pc = "retry"
    /\ \/ /\ createRound("operator", keccak256(gameServerSeed))
          /\ currentRoundId' = roundCounter' - 1
          /\ pc' = "requestRandomness"
          /\ waited' = 0
          /\ UNCHANGED <<gameServerSeed, updates, gameFinalMultiplier, tickIndex,
                         gameCashOuts, batchIndex>>
       \/ /\ UNCHANGED contractVars
          /\ Throw
    /\ UNCHANGED <<mapVars, requests, historyVars>>
    /\ NoOutput
    /\ NoBroadcast
    /\ NoGenerator
    /\ NoHook

runGame_bettingClosed_SendsSeed ==
    /\ UNCHANGED games
    /\ pc = "betting"
    /\ pc' = "prepared"
    /\ currentGameState' = [currentGameState EXCEPT !.gameState = "prepared",
                                                    !.bettingCloseTime = FALSE]
    /\ Broadcast(<<StatusFrame("prepared", currentRoundId, gameServerSeed)>>)
    /\ NoClientEvent
    /\ NoGenerator
    /\ NoHook
    /\ UNCHANGED <<contractVars, gameServerSeed, currentRoundId, waited, updates,
                   gameFinalMultiplier, tickIndex, gameCashOuts, batchIndex,
                   mapVars, requests, historyVars>>
    /\ NoOutput

\* The betting time is over: status 'prepared', then five seconds.
runGame_bettingClosed ==
    /\ UNCHANGED games
    /\ pc = "betting"
    /\ pc' = "prepared"
    /\ currentGameState' = [currentGameState EXCEPT !.gameState = "prepared",
                                                    !.bettingCloseTime = FALSE]
    /\ Broadcast(<<StatusFrame("prepared", currentRoundId, "")>>)
    /\ NoClientEvent
    /\ NoGenerator
    /\ NoHook
    /\ UNCHANGED <<contractVars, gameServerSeed, currentRoundId, waited, updates,
                   gameFinalMultiplier, tickIndex, gameCashOuts, batchIndex,
                   mapVars, requests, historyVars>>
    /\ NoOutput

\* The index (from 1) of the first RUNNING update, 0 when there is none.
firstRunningIndex(u) ==
    IF \E k \in 1..Len(u) : u[k].gameState = 2
    THEN CHOOSE k \in 1..Len(u) :
             /\ u[k].gameState = 2
             /\ \A j \in 1..(k - 1) : u[j].gameState # 2
    ELSE 0

EndRound_KeepsRunning(update) ==
    /\ activeRounds' =
         [activeRounds EXCEPT ![currentRoundId].state = "running",
                              ![currentRoundId].finalMultiplier =
                                  gameFinalMultiplier]
    /\ currentGameState' =
         [currentGameState EXCEPT !.currentMultiplier = gameFinalMultiplier * 1000,
                                  !.gameState = "ended",
                                  !.latestUpdate = update]
    /\ Broadcast(<<UpdateFrame(update)>>)
    /\ pc' = "crashed"
    /\ tickIndex' = 0
    /\ updates' = <<>>

\* The CRASHED update: the round ends with the generated final multiplier,
\* and the update is broadcast.
EndRound(update) ==
    /\ activeRounds' =
         [activeRounds EXCEPT ![currentRoundId].state = "ended",
                              ![currentRoundId].finalMultiplier =
                                  gameFinalMultiplier]
    /\ currentGameState' =
         [currentGameState EXCEPT !.currentMultiplier = gameFinalMultiplier * 1000,
                                  !.gameState = "ended",
                                  !.latestUpdate = update]
    /\ Broadcast(<<UpdateFrame(update)>>)
    /\ pc' = "crashed"
    /\ tickIndex' = 0
    /\ updates' = <<>>

runGame_startStreaming_SendsFirstTwice ==
    /\ UNCHANGED games
    /\ pc = "prepared"
    /\ IF firstRunningIndex(updates) = 1
       THEN /\ activeRounds' = [activeRounds EXCEPT ![currentRoundId].state = "running"]
            /\ currentGameState' =
                 [currentGameState EXCEPT !.gameState = "running",
                                          !.currentMultiplier = One,
                                          !.latestUpdate = updates[1]]
            /\ Broadcast(<<StatusFrame("game_started", currentRoundId, ""),
                           UpdateFrame(syntheticStartUpdate),
                           UpdateFrame(updates[1])>>)
            /\ tickIndex' = 1
            /\ pc' = "tick"
            /\ UNCHANGED updates
       ELSE EndRound(updates[1])
    /\ NoClientEvent
    /\ NoGenerator
    /\ NoHook
    /\ UNCHANGED <<contractVars, gameServerSeed, currentRoundId, waited,
                   gameFinalMultiplier, gameCashOuts, batchIndex, activeCashOuts,
                   requests, historyVars>>
    /\ NoOutput

\* The round starts running; the streaming loop runs to its first await.  The
\* first RUNNING update is broadcast, not taken over as the live multiplier.
runGame_startStreaming ==
    /\ UNCHANGED games
    /\ pc = "prepared"
    /\ IF firstRunningIndex(updates) = 1
       THEN /\ activeRounds' = [activeRounds EXCEPT ![currentRoundId].state = "running"]
            /\ currentGameState' =
                 [currentGameState EXCEPT !.gameState = "running",
                                          !.currentMultiplier = One,
                                          !.latestUpdate = updates[1]]
            /\ Broadcast(<<StatusFrame("game_started", currentRoundId, ""),
                           UpdateFrame(syntheticStartUpdate),
                           UpdateFrame(updates[1])>>)
            /\ tickIndex' = 2
            /\ pc' = "tick"
            /\ UNCHANGED updates
       ELSE EndRound(updates[1])
    /\ NoClientEvent
    /\ NoGenerator
    /\ NoHook
    /\ UNCHANGED <<contractVars, gameServerSeed, currentRoundId, waited,
                   gameFinalMultiplier, gameCashOuts, batchIndex, activeCashOuts,
                   requests, historyVars>>
    /\ NoOutput

\* One turn of the streaming loop after the tick interval.
runGame_tick ==
    /\ UNCHANGED games
    /\ pc = "tick"
    /\ LET update == updates[tickIndex]
       IN  IF update.gameState = 2
           THEN /\ activeRounds' =
                     [activeRounds EXCEPT ![currentRoundId].currentMultiplier =
                                              update.currentValue]
                /\ currentGameState' =
                     [currentGameState EXCEPT !.currentMultiplier =
                                                  update.currentValue,
                                              !.latestUpdate = update]
                /\ Broadcast(<<UpdateFrame(update)>>)
                /\ tickIndex' = tickIndex + 1
                /\ UNCHANGED <<pc, updates>>
           ELSE EndRound(update)
    /\ NoClientEvent
    /\ NoGenerator
    /\ NoHook
    /\ UNCHANGED <<contractVars, gameServerSeed, currentRoundId, waited,
                   gameFinalMultiplier, gameCashOuts, batchIndex, activeCashOuts,
                   requests, historyVars>>
    /\ NoOutput

\* Two seconds after the crash: the reveal; once it is mined runGame reads
\* the round's cash-out list, once, and sends the settlement.
runGame_revealServerSeed ==
    /\ UNCHANGED games
    /\ pc = "crashed"
    /\ \/ /\ revealServerSeed("operator", currentRoundId, gameServerSeed)
          /\ IF lastTx'.ok
             THEN /\ gameCashOuts' =
                       (IF activeCashOuts[currentRoundId].present
                        THEN activeCashOuts[currentRoundId].list
                        ELSE <<>>)
                  /\ pc' = "settle"
                  /\ UNCHANGED <<gameServerSeed, currentRoundId, waited, updates,
                                 gameFinalMultiplier, tickIndex, batchIndex>>
             ELSE Throw
       \/ /\ UNCHANGED contractVars
          /\ Throw
    /\ UNCHANGED <<mapVars, requests, historyVars>>
    /\ NoOutput
    /\ NoBroadcast
    /\ NoGenerator
    /\ NoHook

\* activeRounds.delete, activeCashOuts.delete and the status 'revealed'; the
\* round is done.  Two seconds later runGame returns and main calls it again.
CleanUp ==
    /\ activeRounds' = [activeRounds EXCEPT ![currentRoundId] = NoActiveRound]
    /\ activeCashOuts' = [activeCashOuts EXCEPT ![currentRoundId] = NoCashOuts]
    /\ Broadcast(<<StatusFrame("revealed", currentRoundId, gameServerSeed)>>)
    /\ completed' = completed \cup {currentRoundId}
    /\ pc' = "start"
    /\ gameServerSeed' = ""
    /\ currentRoundId' = 0
    /\ gameFinalMultiplier' = 0
    /\ gameCashOuts' = <<>>
    /\ batchIndex' = 0

runGame_settleRound ==
    /\ UNCHANGED games
    /\ pc = "settle"
    /\ \/ /\ settleRound("operator", currentRoundId,
                         ParseUnits(gameFinalMultiplier * 1000), gameServerSeed)
          /\ IF lastTx'.ok
             THEN /\ currentGameState' =
                       [currentGameState EXCEPT !.recentRounds =
                           pushRecentRound(@, [roundId |-> currentRoundId,
                                               multiplier |-> gameFinalMultiplier])]
                  /\ IF Len(gameCashOuts) > 0
                     THEN /\ pc' = "processCashOuts"
                          /\ batchIndex' = 1
                          /\ UNCHANGED <<gameServerSeed, currentRoundId,
                                         gameFinalMultiplier, gameCashOuts,
                                         mapVars, completed, inbox>>
                     ELSE CleanUp
                  /\ UNCHANGED <<waited, updates, tickIndex>>
             ELSE Throw /\ UNCHANGED <<mapVars, completed, inbox, currentGameState>>
       \/ /\ UNCHANGED <<contractVars, mapVars, completed, inbox, currentGameState>>
          /\ Throw
    /\ UNCHANGED <<requests, acked, successCount, submitted, sentBatches,
                   generated>>
    /\ NoOutput
    /\ NoClientEvent
    /\ NoGenerator
    /\ NoHook

\* cashOuts.map(...): the entries as the contract takes them
cashOutData(list) ==
    [k \in 1..Len(list) |->
        [wallet |-> AddressOf(list[k].walletAddress),
         multiplier |-> ParseUnits(list[k].multiplier)]]

batchOf_OneMore(data, i) ==
    SubSeq(data, i, Min(i + BATCH_SIZE, Len(data)))

\* cashOutData.slice(i, i + BATCH_SIZE), with i counted from 1
batchOf(data, i) ==
    SubSeq(data, i, Min(i + BATCH_SIZE - 1, Len(data)))

runGame_processCashOuts_DropsOnFailure ==
    /\ UNCHANGED games
    /\ pc = "processCashOuts"
    /\ LET data == cashOutData(gameCashOuts)
           last == Min(batchIndex + BATCH_SIZE - 1, Len(data))
           batch == batchOf(data, batchIndex)
       IN  \/ /\ processCashOuts("operator", currentRoundId, batch)
              /\ IF bets' # bets
                 THEN /\ submitted' = [submitted EXCEPT ![currentRoundId] = @ \o batch]
                      /\ sentBatches' = [sentBatches EXCEPT ![currentRoundId] =
                                            Append(@, batch)]
                      /\ IF last < Len(data)
                         THEN /\ batchIndex' = batchIndex + BATCH_SIZE
                              /\ UNCHANGED <<pc, gameServerSeed, currentRoundId,
                                             gameFinalMultiplier, gameCashOuts,
                                             mapVars, completed, inbox>>
                         ELSE CleanUp
                      /\ UNCHANGED <<waited, updates, tickIndex>>
                 ELSE Throw /\ UNCHANGED <<submitted, sentBatches, mapVars,
                                            completed, inbox>>
           \/ /\ UNCHANGED <<contractVars, submitted, sentBatches, completed,
                            inbox>>
              /\ activeRounds' = [activeRounds EXCEPT ![currentRoundId] = NoActiveRound]
              /\ activeCashOuts' = [activeCashOuts EXCEPT ![currentRoundId] = NoCashOuts]
              /\ Throw
    /\ UNCHANGED <<requests, acked, successCount, generated>>
    /\ NoOutput
    /\ UNCHANGED currentGameState
    /\ NoClientEvent
    /\ NoGenerator
    /\ NoHook

\* One batch is mined; after the last one runGame cleans up.
runGame_processCashOuts ==
    /\ UNCHANGED games
    /\ pc = "processCashOuts"
    /\ LET data == cashOutData(gameCashOuts)
           last == Min(batchIndex + BATCH_SIZE - 1, Len(data))
           batch == batchOf(data, batchIndex)
       IN  \/ /\ processCashOuts("operator", currentRoundId, batch)
              /\ IF bets' # bets
                 THEN /\ submitted' = [submitted EXCEPT ![currentRoundId] = @ \o batch]
                      /\ sentBatches' = [sentBatches EXCEPT ![currentRoundId] =
                                            Append(@, batch)]
                      /\ IF last < Len(data)
                         THEN /\ batchIndex' = batchIndex + BATCH_SIZE
                              /\ UNCHANGED <<pc, gameServerSeed, currentRoundId,
                                             gameFinalMultiplier, gameCashOuts,
                                             mapVars, completed, inbox>>
                         ELSE CleanUp
                      /\ UNCHANGED <<waited, updates, tickIndex>>
                 ELSE Throw /\ UNCHANGED <<submitted, sentBatches, mapVars,
                                            completed, inbox>>
           \/ /\ UNCHANGED <<contractVars, submitted, sentBatches, mapVars,
                            completed, inbox>>
              /\ Throw
    /\ UNCHANGED <<requests, acked, successCount, generated>>
    /\ NoOutput
    /\ UNCHANGED currentGameState
    /\ NoClientEvent
    /\ NoGenerator
    /\ NoHook

\* ------------------------------------------------- players and the provider
\* A player stakes on a round the server has announced, while the contract
\* takes bets on it.
player_placeBet ==
    /\ \E w \in Bettors, r \in RoundIds :
          /\ activeRounds[r].present
          /\ bets[r][w].amount = 0
          /\ placeBet(w, r, BetAmount, TRUE)
          /\ bets' # bets
    /\ NoOutput
    /\ UNCHANGED <<runGameVars, mapVars, requests, historyVars, wsVars, genVars, hookVars>>

\* The entropy provider answers a pending request.
provider_entropyCallback ==
    /\ \E s \in SeqNums, v \in NonZeroEntropy :
          /\ sequenceToRound[s] # 0
          /\ rounds[sequenceToRound[s]].status = RandomRequested
          /\ entropyCallback(s, v)
    /\ NoOutput
    /\ UNCHANGED <<runGameVars, mapVars, requests, historyVars, wsVars, genVars, hookVars>>

\* ------------------------------------------------------ handleCashOutRequest
\* The cash_out messages clients send; 0 and "" stand for a missing field.
\* A message names a round the server has announced, if it names one.
ClaimedMultipliers == {0, 99000, One, 114999}
CashOutMessages ==
    {[roundId |-> r, multiplier |-> One, walletAddress |-> w] :
        r \in RoundIds, w \in WalletStrings \cup {""}}
    \cup {[roundId |-> r, multiplier |-> m, walletAddress |-> "0xab"] :
        r \in RoundIds, m \in ClaimedMultipliers}
    \cup {[roundId |-> 0, multiplier |-> One, walletAddress |-> "0xab"]}
Announced(r) == IF r = 0 THEN TRUE ELSE generated[r] # 0

\* ws.send of a cash_out_response to the message; the handler run is over.
Respond(q, message, success, error) ==
    /\ requests' = [requests EXCEPT ![q] = NoRequest]
    /\ lastResponse' =
         [roundId |-> message.roundId, multiplier |-> message.multiplier,
          walletAddress |-> message.walletAddress,
          success |-> success, error |-> error]

\* The duplicate test without toLowerCase
alreadyCashedOut_CaseSensitive(existingCashOuts, walletAddress) ==
    \E k \in 1..Len(existingCashOuts) :
        existingCashOuts[k].walletAddress = walletAddress

\* existingCashOuts.some(co => co.walletAddress.toLowerCase() ===
\*                             walletAddress.toLowerCase())
alreadyCashedOut(existingCashOuts, walletAddress) ==
    \E k \in 1..Len(existingCashOuts) :
        toLowerCase(existingCashOuts[k].walletAddress) = toLowerCase(walletAddress)

invalidMultiplier_NoUpperBound(multiplier, currentMultiplier) ==
    multiplier < One

\* multiplier < 1.00 || multiplier > activeRound.currentMultiplier
invalidMultiplier(multiplier, currentMultiplier) ==
    multiplier < One \/ multiplier > currentMultiplier

\* A success: true has been sent for the wallet in round r.
CashedOut(r, walletAddress) ==
    \E c \in acked :
        /\ c.roundId = r
        /\ AddressOf(c.walletAddress) = AddressOf(walletAddress)

\* A cash_out message arrives: the handler, in the free slot q, from its
\* start to its await of getBet.
handleCashOutRequest(q, message) ==
    /\ requests[q].stage = "none"
    /\ \A k \in 1..(q - 1) : requests[k].stage # "none"
    /\ LET activeRound == activeRounds[message.roundId]
       IN  IF \/ message.roundId = 0
              \/ message.multiplier = 0
              \/ message.walletAddress = ""
           THEN Respond(q, message, FALSE, "Missing required fields")
           ELSE IF ~activeRound.present \/ activeRound.state # "running"
           THEN Respond(q, message, FALSE, "Round not active")
           ELSE IF invalidMultiplier(message.multiplier,
                                     activeRound.currentMultiplier)
           THEN Respond(q, message, FALSE, "Invalid multiplier")
           ELSE /\ requests' = [requests EXCEPT ![q] =
                                  [stage |-> "getBet",
                                   roundId |-> message.roundId,
                                   multiplier |-> message.multiplier,
                                   walletAddress |-> message.walletAddress,
                                   live |-> activeRound.currentMultiplier,
                                   cashedOut |-> CashedOut(message.roundId,
                                                     message.walletAddress)]]
                /\ NoOutput
    /\ UNCHANGED <<contractVars, runGameVars, mapVars, historyVars, wsVars, genVars, hookVars>>

\* getBet has returned, or thrown: the handler up to its next await.
handleCashOutRequest_getBet(q) ==
    /\ requests[q].stage = "getBet"
    /\ \E readOk \in BOOLEAN :
         LET message == requests[q]
             roundIdNum == message.roundId
             bet == bets[roundIdNum][AddressOf(message.walletAddress)]
             existingCashOuts ==
                 IF activeCashOuts[roundIdNum].present
                 THEN activeCashOuts[roundIdNum].list
                 ELSE <<>>
             cashOut == [walletAddress |-> toLowerCase(message.walletAddress),
                         multiplier |-> message.multiplier,
                         liveAtReceipt |-> message.live]
         IN  IF ~readOk
             THEN Respond(q, message, FALSE, "Failed to verify bet")
                  /\ UNCHANGED activeCashOuts
             ELSE IF bet.amount = 0
             THEN Respond(q, message, FALSE, "No bet found")
                  /\ UNCHANGED activeCashOuts
             ELSE IF alreadyCashedOut(existingCashOuts, message.walletAddress)
             THEN Respond(q, message, FALSE, "Already cashed out")
                  /\ UNCHANGED activeCashOuts
             ELSE /\ activeCashOuts' =
                       [activeCashOuts EXCEPT ![roundIdNum] =
                          [present |-> TRUE,
                           list |-> Append(existingCashOuts, cashOut)]]
                  /\ requests' = [requests EXCEPT ![q].stage = "confirm"]
                  /\ NoOutput
    /\ UNCHANGED <<contractVars, runGameVars, activeRounds, historyVars, wsVars, genVars, hookVars>>

\* The balance reads are over: the confirmation is sent.
handleCashOutRequest_confirm(q) ==
    /\ requests[q].stage = "confirm"
    /\ LET message == requests[q]
           address == AddressOf(message.walletAddress)
       IN  /\ acked' = acked \cup
                 {[roundId |-> message.roundId,
                   walletAddress |-> toLowerCase(message.walletAddress),
                   multiplier |-> message.multiplier]}
           /\ successCount' =
                 [successCount EXCEPT ![message.roundId][address] = @ + 1]
           /\ Respond(q, message, TRUE, "")
    /\ UNCHANGED <<contractVars, runGameVars, mapVars, submitted, sentBatches,
                   completed, generated, wsVars, genVars, hookVars>>

\* ------------------------------------------------------------- the server
Slots == 1..MaxRequests
HandleCashOutRequest ==
    \E q \in Slots, message \in CashOutMessages :
        Announced(message.roundId) /\ handleCashOutRequest(q, message)
HandleCashOutRequestGetBet == \E q \in Slots : handleCashOutRequest_getBet(q)
HandleCashOutRequestConfirm == \E q \in Slots : handleCashOutRequest_confirm(q)

Init == ContractInit /\ ServerInit /\ HookInit

Next ==
    \/ runGame_createRound
    \/ runGame_requestRandomness
    \/ runGame_revealDelay
    \/ runGame_pollEntropy
    \/ runGame_retryCreateRound
    \/ runGame_bettingClosed
    \/ runGame_startStreaming
    \/ runGame_tick
    \/ runGame_revealServerSeed
    \/ runGame_settleRound
    \/ runGame_processCashOuts
    \/ player_placeBet
    \/ provider_entropyCallback
    \/ HandleCashOutRequest
    \/ HandleCashOutRequestGetBet
    \/ HandleCashOutRequestConfirm

Spec == Init /\ [][Next]_vars

\* ------------------------------------------- the main loop without clients
\* The rounds as runGame drives them when no client sends a message, from
\* the start of the server and from the settlement of a first round with up
\* to MaxCashOuts recorded cash-outs, each of a wallet of its own.  main calls
\* runGame once more than in Spec, so that a call follows the first one.
CashOutWallets ==
    <<"0x01", "0x02", "0x03", "0x04", "0x05", "0x06", "0x07", "0x08",
      "0x09", "0x0a", "0x0b", "0x0c", "0x0d", "0x0e", "0x0f", "0x10",
      "0x11", "0x12", "0x13", "0x14", "0x15", "0x16", "0x17", "0x18",
      "0x19", "0x1a", "0x1b", "0x1c", "0x1d", "0x1e", "0x1f", "0x20",
      "0x21", "0x22", "0x23", "0x24", "0x25", "0x26", "0x27", "0x28">>
WalletsOf(n) == {CashOutWallets[k] : k \in 1..n}
RecordedCashOuts(n) ==
    [k \in 1..n |-> [walletAddress |-> CashOutWallets[k], multiplier |-> One,
                     liveAtReceipt |-> One]]

\* Round 1 has crashed at 1.15x and its seed is revealed: runGame stands at
\* the settlement with the n cash-outs it has read.
SettlementInit(n) ==
    /\ rounds = [r \in RoundIds |->
                   IF r = 1
                   THEN [serverSeedHash |-> keccak256("seedA"), serverSeed |-> "seedA",
                         sequenceNumber |-> 1, entropyRandom |-> 7,
                         status |-> SeedRevealed]
                   ELSE NoRound]
    /\ roundCounter = 2
    /\ sequenceToRound = [q \in SeqNums |-> IF q = 1 THEN 1 ELSE 0]
    /\ operator = "operator"
    /\ bets = [r \in RoundIds |-> [w \in Addresses \cup WalletsOf(n) |->
                  IF r = 1 /\ w \in WalletsOf(n)
                  THEN [amount |-> BetAmount, cashOutMultiplier |-> 0,
                        settled |-> FALSE]
                  ELSE NoBet]]
    /\ claimablePayouts = [w \in Addresses \cup WalletsOf(n) |-> 0]
    /\ roundFinalMultipliers = [r \in RoundIds |-> 0]
    /\ roundSettled = [r \in RoundIds |-> FALSE]
    /\ tokenBalance = n * BetAmount
    /\ entropySeq = 2
    /\ lastTx = Tx("revealServerSeed", "operator", 1, "seedA", TRUE)
    /\ entropyDelivered = {1}
    /\ pc = "settle"
    /\ games = 1
    /\ gameServerSeed = "seedA"
    /\ currentRoundId = 1
    /\ waited = 0
    /\ updates = <<>>
    /\ gameFinalMultiplier = 115
    /\ tickIndex = 0
    /\ gameCashOuts = RecordedCashOuts(n)
    /\ batchIndex = 0
    /\ activeRounds = [r \in RoundIds |->
                         IF r = 1
                         THEN [present |-> TRUE, currentMultiplier |-> FloorValue(115),
                               state |-> "ended", finalMultiplier |-> 115]
                         ELSE NoActiveRound]
    /\ activeCashOuts = [r \in RoundIds |->
                           IF r = 1
                           THEN [present |-> TRUE, list |-> RecordedCashOuts(n)]
                           ELSE NoCashOuts]
    /\ requests = [q \in 1..MaxRequests |-> NoRequest]
    /\ lastResponse = NoResponse
    /\ acked = {[roundId |-> 1, walletAddress |-> w, multiplier |-> One] :
                   w \in WalletsOf(n)}
    /\ successCount = [r \in RoundIds |-> [w \in Players \cup WalletsOf(n) |->
                          IF r = 1 /\ w \in WalletsOf(n) THEN 1 ELSE 0]]
    /\ submitted = [r \in RoundIds |-> <<>>]
    /\ sentBatches = [r \in RoundIds |-> <<>>]
    /\ completed = {}
    /\ generated = [r \in RoundIds |-> IF r = 1 THEN 115 ELSE 0]
    /\ clients = [c \in ClientIds |-> "none"]
    /\ inbox = [c \in ClientIds |-> <<>>]
    /\ currentGameState =
         [roundId |-> 1, gameState |-> "ended", currentMultiplier |-> 115000,
          bettingCloseTime |-> FALSE,
          latestUpdate |-> GameUpdate(FloorValue(115), 100, 115, 100, 115, 3),
          recentRounds |-> <<>>]
    /\ chatMessages = <<>>
    /\ chatsSent = 0
    /\ GenInit
    /\ HookInit

LoopInit == Init \/ \E n \in 0..MaxCashOuts : SettlementInit(n)

main_runGame == callRunGame(MaxGames + 1)

LoopNext ==
    \/ main_runGame
    \/ runGame_requestRandomness
    \/ runGame_revealDelay
    \/ runGame_pollEntropy
    \/ runGame_retryCreateRound
    \/ runGame_bettingClosed
    \/ runGame_startStreaming
    \/ runGame_tick
    \/ runGame_revealServerSeed
    \/ runGame_settleRound
    \/ runGame_processCashOuts
    \/ provider_entropyCallback

\* A timer runGame or main waits for runs out, and the read that follows it
\* returns or throws.
LoopFairness ==
    /\ WF_vars(main_runGame)
    /\ WF_vars(runGame_revealDelay)
    /\ WF_vars(runGame_pollEntropy)

LoopSpec == LoopInit /\ [][LoopNext]_vars /\ LoopFairness

\* ------------------------------------------- the server and its connections
\* One call of runGame while clients connect, chat and leave; nobody bets.
\* The chat is empty at the start, or holds four messages of before.
ChatAddresses == {"", "0xAB"}
ChatTexts == {" ", " gm"}
\* chatText.trim().slice(0, 5000)
trim(chatText) == IF chatText = " gm" THEN "gm" ELSE IF chatText = " " THEN "" ELSE chatText
OldChat(k) == [address |-> "0xcd", message |-> IF k = 1 THEN "first" ELSE "old"]
OldChatMessages == [k \in 1..MAX_CHAT_MESSAGES |-> OldChat(k)]

\* wss.on('connection'): the socket joins clients and is sent the snapshot.
wss_connection(c) ==
    /\ clients[c] = "none"
    /\ \A k \in 1..(c - 1) : clients[k] # "none"
    /\ clients' = [clients EXCEPT ![c] = "open"]
    /\ inbox' = [inbox EXCEPT ![c] =
                    Append(@, SnapshotFrame(currentGameState, chatMessages))]
    /\ UNCHANGED <<currentGameState, chatMessages, chatsSent>>
    /\ UNCHANGED <<contractVars, runGameVars, mapVars, requests, historyVars,
                   genVars, hookVars>>
    /\ NoOutput

\* ws.on('close'): clients.delete(ws)
ws_close(c) ==
    /\ clients[c] = "open"
    /\ clients' = [clients EXCEPT ![c] = "closed"]
    /\ UNCHANGED <<inbox, currentGameState, chatMessages, chatsSent>>
    /\ UNCHANGED <<contractVars, runGameVars, mapVars, requests, historyVars,
                   genVars, hookVars>>
    /\ NoOutput

\* chatMessages.push(chatMessage), then shift() past MAX_CHAT_MESSAGES
pushChatMessage(list, chatMessage) ==
    IF Len(list) + 1 > MAX_CHAT_MESSAGES
    THEN Tail(Append(list, chatMessage))
    ELSE Append(list, chatMessage)

ws_chat_message_NotWhilePolling(c, address, chatText) ==
    /\ pc # "poll"
    /\ clients[c] = "open"
    /\ chatsSent < MaxChats
    /\ chatsSent' = chatsSent + 1
    /\ LET trimmedMessage == trim(chatText)
           chatMessage == [address |-> toLowerCase(address),
                           message |-> trimmedMessage]
       IN  IF address # "" /\ chatText # "" /\ trimmedMessage # ""
           THEN /\ chatMessages' = pushChatMessage(chatMessages, chatMessage)
                /\ Broadcast(<<ChatFrame(chatMessage)>>)
           ELSE UNCHANGED <<chatMessages, inbox>>
    /\ UNCHANGED <<clients, currentGameState>>
    /\ UNCHANGED <<contractVars, runGameVars, mapVars, requests, historyVars,
                   genVars, hookVars>>
    /\ NoOutput

\* ws.on('message') with a frame of type 'chat_message' from connection c
ws_chat_message(c, address, chatText) ==
    /\ clients[c] = "open"
    /\ chatsSent < MaxChats
    /\ chatsSent' = chatsSent + 1
    /\ LET trimmedMessage == trim(chatText)
           chatMessage == [address |-> toLowerCase(address),
                           message |-> trimmedMessage]
       IN  IF address # "" /\ chatText # "" /\ trimmedMessage # ""
           THEN /\ chatMessages' = pushChatMessage(chatMessages, chatMessage)
                /\ Broadcast(<<ChatFrame(chatMessage)>>)
           ELSE UNCHANGED <<chatMessages, inbox>>
    /\ UNCHANGED <<clients, currentGameState>>
    /\ UNCHANGED <<contractVars, runGameVars, mapVars, requests, historyVars,
                   genVars, hookVars>>
    /\ NoOutput

WssConnection == \E c \in ClientIds : wss_connection(c)
WsClose == \E c \in ClientIds : ws_close(c)
WsChatMessage ==
    \E c \in ClientIds, address \in ChatAddresses, chatText \in ChatTexts :
        ws_chat_message(c, address, chatText)

BroadcastInit ==
    /\ ContractInit
    /\ HandlersInit
    /\ clients = [c \in ClientIds |-> "none"]
    /\ inbox = [c \in ClientIds |-> <<>>]
    /\ currentGameState =
         [roundId |-> 0, gameState |-> "preparing", currentMultiplier |-> One,
          bettingCloseTime |-> FALSE, latestUpdate |-> NoUpdate,
          recentRounds |-> <<>>]
    /\ chatMessages \in {<<>>, OldChatMessages}
    /\ chatsSent = 0
    /\ GenInit
    /\ HookInit

BroadcastNext ==
    \/ runGame_createRound
    \/ runGame_requestRandomness
    \/ runGame_revealDelay
    \/ runGame_pollEntropy
    \/ runGame_retryCreateRound
    \/ runGame_bettingClosed
    \/ runGame_startStreaming
    \/ runGame_tick
    \/ runGame_revealServerSeed
    \/ runGame_settleRound
    \/ provider_entropyCallback
    \/ WssConnection
    \/ WsClose
    \/ WsChatMessage

BroadcastSpec == BroadcastInit /\ [][BroadcastNext]_vars

\* ------------------------------------- the contract under arbitrary callers
\* Any address may send any transaction.  Bets are placed on round 1 here;
\* the server's runs (Spec) bet on every round.
CommitHashes == {ZeroHash, keccak256("seedA")}
BetRoundIds == {1}
BetAmounts == {0, 1 * E18, MAX_BET, MAX_BET + 1}
SettleMultipliers == {E18 - 1, 2 * E18}
CashOutMultipliers == {E18 - 1, E18, 2 * E18 + 1}
CashOutEntries == [wallet : Bettors, multiplier : CashOutMultipliers]
CashOutArrays == UNION {[1..n -> CashOutEntries] : n \in 0..1}

TxCreateRound ==
    /\ \E sender \in Callers, h \in CommitHashes : createRound(sender, h)
    /\ UNCHANGED <<serverVars, hookVars>>
TxRequestRandomness ==
    /\ \E sender \in Callers, r \in RoundIds, feePaid \in BOOLEAN :
           requestRandomness(sender, r, feePaid)
    /\ UNCHANGED <<serverVars, hookVars>>
\* the random numbers the provider delivers to arbitrary requests
RandomValues == NonZeroEntropy \cup {9}
TxEntropyCallback ==
    /\ \E s \in SeqNums, v \in RandomValues : entropyCallback(s, v)
    /\ UNCHANGED <<serverVars, hookVars>>
TxRevealServerSeed ==
    /\ \E sender \in Callers, r \in RoundIds, s \in Seeds :
           revealServerSeed(sender, r, s)
    /\ UNCHANGED <<serverVars, hookVars>>
TxSetOperator ==
    /\ \E sender \in Callers, newOperator \in Callers :
           setOperator(sender, newOperator)
    /\ UNCHANGED <<serverVars, hookVars>>
TxPlaceBet ==
    /\ \E sender \in Bettors, r \in BetRoundIds, a \in BetAmounts, ok \in BOOLEAN :
           placeBet(sender, r, a, ok)
    /\ UNCHANGED <<serverVars, hookVars>>
TxSettleRound ==
    /\ \E sender \in Callers, r \in RoundIds, m \in SettleMultipliers,
          s \in Seeds : settleRound(sender, r, m, s)
    /\ UNCHANGED <<serverVars, hookVars>>
TxProcessCashOuts ==
    /\ \E sender \in Callers, r \in BetRoundIds, c \in CashOutArrays :
           processCashOuts(sender, r, c)
    /\ UNCHANGED <<serverVars, hookVars>>
TxClaimAllPayouts ==
    /\ \E sender \in Bettors : claimAllPayouts(sender)
    /\ UNCHANGED <<serverVars, hookVars>>
TxWithdrawHouseEdge ==
    /\ \E sender \in Callers : withdrawHouseEdge(sender)
    /\ UNCHANGED <<serverVars, hookVars>>

ContractNext ==
    \/ TxCreateRound
    \/ TxRequestRandomness
    \/ TxEntropyCallback
    \/ TxRevealServerSeed
    \/ TxSetOperator
    \/ TxPlaceBet
    \/ TxSettleRound
    \/ TxProcessCashOuts
    \/ TxClaimAllPayouts
    \/ TxWithdrawHouseEdge

ContractSpec == Init /\ [][ContractNext]_vars

\* ------------------------------------------ the settlement of the contract
\* The operator runs the rounds; two wallets stake on round 1, the operator
\* settles it and pays out in batches of up to two entries.
SettlementBettors == {"alice", "bob"}
SettlementBetAmounts == {1 * E18, MAX_BET}
SettlementMultipliers == {E18, (3 * E18) \div 2, 2 * E18 + 1}
SettlementEntries == [wallet : SettlementBettors, multiplier : SettlementMultipliers]
SettlementArrays == UNION {[1..n -> SettlementEntries] : n \in 0..2}

OpCreateRound ==
    /\ createRound("operator", keccak256("seedA"))
    /\ UNCHANGED <<serverVars, hookVars>>
OpRequestRandomness ==
    /\ \E r \in RoundIds : requestRandomness("operator", r, TRUE)
    /\ UNCHANGED <<serverVars, hookVars>>
OpRevealServerSeed ==
    /\ \E r \in RoundIds : revealServerSeed("operator", r, "seedA")
    /\ UNCHANGED <<serverVars, hookVars>>
OpSettleRound ==
    /\ \E r \in RoundIds : settleRound("operator", r, 2 * E18, "seedA")
    /\ UNCHANGED <<serverVars, hookVars>>
OpProcessCashOuts ==
    /\ \E r \in BetRoundIds, c \in SettlementArrays :
           processCashOuts("operator", r, c)
    /\ UNCHANGED <<serverVars, hookVars>>
BettorPlaceBet ==
    /\ \E sender \in SettlementBettors, r \in BetRoundIds,
          a \in SettlementBetAmounts : placeBet(sender, r, a, TRUE)
    /\ UNCHANGED <<serverVars, hookVars>>
BettorClaimAllPayouts ==
    /\ \E sender \in SettlementBettors : claimAllPayouts(sender)
    /\ UNCHANGED <<serverVars, hookVars>>
OpWithdrawHouseEdge ==
    /\ withdrawHouseEdge("operator")
    /\ UNCHANGED <<serverVars, hookVars>>

SettlementNext ==
    \/ OpCreateRound
    \/ OpRequestRandomness
    \/ TxEntropyCallback
    \/ OpRevealServerSeed
    \/ OpSettleRound
    \/ OpProcessCashOuts
    \/ BettorPlaceBet
    \/ BettorClaimAllPayouts
    \/ OpWithdrawHouseEdge

SettlementSpec == Init /\ [][SettlementNext]_vars

\* ------------------------------------------------- properties of the server
\* The cash-out list of round r, empty when the map has no entry for it.
CashOutList(r) ==
    IF activeCashOuts[r].present THEN activeCashOuts[r].list ELSE <<>>

\* The records of round r's list that belong to the address a.
RecordsOf(r, a) ==
    {k \in 1..Len(CashOutList(r)) :
        AddressOf(CashOutList(r)[k].walletAddress) = a}

\* C1: for every round and every wallet (whatever the case of its letters)
\* the round's cash-out list never holds more than one record of the wallet,
\* and no more than one cash_out_response with success = true is ever sent
\* for it.
C1_AtMostOneCashOutPerWallet ==
    \A r \in RoundIds, a \in Players :
        /\ Cardinality(RecordsOf(r, a)) <= 1
        /\ successCount[r][a] <= 1

\* The entries of the batches that went through for round r which are the
\* acknowledged cash-out c.
SubmittedEntriesOf(c) ==
    {k \in 1..Len(submitted[c.roundId]) :
        submitted[c.roundId][k] =
            [wallet |-> AddressOf(c.walletAddress),
             multiplier |-> ParseUnits(c.multiplier)]}

\* C2: once runGame has revealed, settled and submitted the batches of a
\* round, every cash-out of that round that was answered with success = true
\* is an entry of exactly one of the batches.
C2_AcceptedCashOutIsSubmitted ==
    \A c \in acked :
        c.roundId \in completed => Cardinality(SubmittedEntriesOf(c)) = 1

\* The step appends a record to the cash-out list of round r.
Appended(r) ==
    /\ activeCashOuts'[r].present
    /\ Len(activeCashOuts'[r].list) > Len(CashOutList(r))

\* C3: a step that appends a cash-out record for a round, and a step that
\* answers success = true for it, finds the round in activeRounds with state
\* 'running'.
C3_AcceptedOnlyWhileRunning ==
    [][\A r \in RoundIds :
         (\/ Appended(r)
          \/ lastResponse'.success /\ lastResponse'.roundId = r)
            => /\ activeRounds[r].present
               /\ activeRounds[r].state = "running"]_vars

C5_RejectedOnArrival(message) ==
    IF message.roundId = 0 \/ message.multiplier = 0 \/ message.walletAddress = ""
    THEN TRUE
    ELSE \/ ~activeRounds[message.roundId].present
         \/ activeRounds[message.roundId].state # "running"
         \/ message.multiplier < One
         \/ message.multiplier > activeRounds[message.roundId].currentMultiplier

\* The wallet of the request has no bet on the round, or had cashed out of
\* the round when the request arrived.
C5_RejectedAfterBetRead(request) ==
    \/ bets[request.roundId][AddressOf(request.walletAddress)].amount = 0
    \/ request.cashedOut

C5_Reasons ==
    {"Missing required fields", "Round not active", "Invalid multiplier",
     "No bet found", "Already cashed out", "Failed to verify bet"}

\* C5: a request the rejection matrix rejects is not taken further: it is
\* not passed on to the bet read when it has missing fields, names a round
\* that is not running or a multiplier below 1.00x or above the live one, and
\* it is not recorded when the wallet has no bet or had cashed out already
\* when the request arrived.
\* The step that answers success = false gives one of the reasons and leaves
\* the cash-out lists, the rounds and runGame as they are.
C5_RejectionMatrix ==
    [][\A q \in Slots :
         /\ (requests[q].stage = "none" /\ requests'[q].stage = "getBet")
                => ~C5_RejectedOnArrival(requests'[q])
         /\ (requests[q].stage = "getBet" /\ requests'[q].stage = "confirm")
                => ~C5_RejectedAfterBetRead(requests[q])
         /\ (lastResponse' # NoResponse /\ ~lastResponse'.success)
                => /\ lastResponse'.error \in C5_Reasons
                   /\ UNCHANGED <<mapVars, runGameVars>>]_vars

\* ------------------------------------------------- properties of the contract
\* The step is a call of fn that the history recorded.
Called(fn) == lastTx' # lastTx /\ lastTx'.fn = fn

\* C6: a revealServerSeed(roundId, seed) sent for a round in RandomReady is
\* accepted exactly when keccak256(seed) is the round's serverSeedHash; an
\* accepted call stores the seed and moves the round to SeedRevealed, a
\* rejected one leaves every round as it was.
C6_RevealIffHashMatches ==
    [][(Called("revealServerSeed")
          /\ rounds[lastTx'.roundId].status = RandomReady)
        => LET r == lastTx'.roundId
               s == lastTx'.seed
           IN  /\ lastTx'.ok <=> (keccak256(s) = rounds[r].serverSeedHash)
               /\ lastTx'.ok => /\ rounds'[r].serverSeed = s
                                /\ rounds'[r].status = SeedRevealed
               /\ ~lastTx'.ok => rounds' = rounds]_vars

\* A reveal with a seed that does not hash to the commitment was just
\* rejected for a round that is in RandomReady.
C6_Witness ==
    /\ lastTx.fn = "revealServerSeed"
    /\ ~lastTx.ok
    /\ rounds[lastTx.roundId].status = RandomReady
    /\ keccak256(lastTx.seed) # rounds[lastTx.roundId].serverSeedHash

\* C7: a round's serverSeedHash is written by createRound alone, for the
\* round it creates; the hash of a round that exists is not changed by any
\* step, the creation of other rounds included.
C7_CommitmentNeverChanges ==
    [][\A r \in RoundIds :
         /\ (rounds'[r].serverSeedHash # rounds[r].serverSeedHash)
                => lastTx'.fn = "createRound" /\ lastTx'.roundId = r
         /\ (r < roundCounter \/ rounds[r].serverSeedHash # ZeroHash)
                => rounds'[r].serverSeedHash = rounds[r].serverSeedHash]_vars

\* Round 1 was committed, revealed and settled, a bet on it was paid out,
\* and another round was created after it: its commitment is still there.
C7_Witness ==
    /\ rounds[1].serverSeedHash = keccak256("seedA")
    /\ rounds[1].status = SeedRevealed
    /\ roundSettled[1]
    /\ bets[1]["alice"].settled
    /\ roundCounter > 2

\* C8: a round whose stored serverSeed is not empty is in SeedRevealed, had
\* its entropy delivered by entropyCallback, and its seed hashes to its
\* commitment.
C8_StoredSeedIsRevealedAndMatches ==
    \A r \in RoundIds :
        rounds[r].serverSeed # ""
            => /\ rounds[r].status = SeedRevealed
               /\ r \in entropyDelivered
               /\ keccak256(rounds[r].serverSeed) = rounds[r].serverSeedHash

C8_Witness ==
    \E r \in RoundIds : rounds[r].serverSeed # "" /\ lastTx.fn = "revealServerSeed"

\* C9: in every step a round's status stays or moves to the next status of
\* Created, RandomRequested, RandomReady, SeedRevealed; a round becomes
\* settled only in SeedRevealed, and a settled round stays settled.
C9_StatusMovesForwardOneStep ==
    [][\A r \in RoundIds :
         /\ \/ rounds'[r].status = rounds[r].status
            \/ rounds'[r].status = rounds[r].status + 1
         /\ (roundSettled'[r] /\ ~roundSettled[r])
                => rounds[r].status = SeedRevealed
                   /\ rounds'[r].status = SeedRevealed
         /\ roundSettled[r] => roundSettled'[r]]_vars

\* A round went all the way: it is settled, in SeedRevealed.
C9_Witness ==
    \E r \in RoundIds :
        /\ roundSettled[r]
        /\ rounds[r].status = SeedRevealed
        /\ lastTx.fn = "settleRound" /\ lastTx.ok /\ lastTx.roundId = r

\* C10: a settleRound call succeeds only for a round in SeedRevealed that is
\* not settled yet, with finalMultiplier >= 1.00x and a seed that hashes to
\* the commitment; a round becomes settled by such a call alone, and from
\* then on its recorded final multiplier does not change.
C10_SettleOnceAfterReveal ==
    [][\A r \in RoundIds :
         /\ (Called("settleRound") /\ lastTx'.ok /\ lastTx'.roundId = r)
                => /\ rounds[r].status = SeedRevealed
                   /\ ~roundSettled[r]
                   /\ roundSettled'[r]
                   /\ roundFinalMultipliers'[r] >= E18
                   /\ keccak256(lastTx'.seed) = rounds[r].serverSeedHash
         /\ (roundSettled'[r] /\ ~roundSettled[r])
                => Called("settleRound") /\ lastTx'.ok /\ lastTx'.roundId = r
         /\ roundSettled[r]
                => /\ roundSettled'[r]
                   /\ roundFinalMultipliers'[r] = roundFinalMultipliers[r]]_vars

\* A second settleRound, by the operator with the right seed and a valid
\* multiplier, was just rejected for a round that is already settled.
C10_Witness ==
    /\ lastTx.fn = "settleRound"
    /\ ~lastTx.ok
    /\ lastTx.sender = operator
    /\ roundSettled[lastTx.roundId]
    /\ keccak256(lastTx.seed) = rounds[lastTx.roundId].serverSeedHash

\* The contract's storage and token balance, without the history of calls.
contractState ==
    <<rounds, roundCounter, sequenceToRound, operator, bets, claimablePayouts,
      roundFinalMultipliers, roundSettled, tokenBalance, entropySeq,
      entropyDelivered>>

\* C11: a call of revealServerSeed, settleRound, processCashOuts,
\* withdrawHouseEdge or setOperator by a caller that is not the current
\* operator fails and changes nothing in the contract.
C11_OnlyOperatorChangesState ==
    [][\A sender \in Callers :
         sender # operator =>
           /\ \A r \in RoundIds, s \in Seeds :
                revealServerSeed(sender, r, s) => UNCHANGED contractState
           /\ \A r \in RoundIds, m \in SettleMultipliers, s \in Seeds :
                settleRound(sender, r, m, s) => UNCHANGED contractState
           /\ \A r \in BetRoundIds, c \in CashOutArrays :
                processCashOuts(sender, r, c) => UNCHANGED contractState
           /\ withdrawHouseEdge(sender) => UNCHANGED contractState
           /\ \A newOperator \in Callers :
                setOperator(sender, newOperator) => UNCHANGED contractState]_vars

\* The server has closed the betting of round r: the round is prepared,
\* running or ended.
BettingClosed(r) ==
    /\ activeRounds[r].present
    /\ \/ activeRounds[r].state \in {"running", "ended"}
       \/ currentRoundId = r /\ pc = "prepared"

\* C12: no bet is placed on a round whose betting the server has closed: a
\* placeBet for a round that is prepared, running or ended is rejected.
C12_NoBetAfterBettingClosed ==
    [][\A r \in RoundIds, w \in Addresses :
         (bets[r][w].amount = 0 /\ bets'[r][w].amount > 0)
            => ~BettingClosed(r)]_vars

\* C13: a wallet has at most one bet on a round: a placeBet by a wallet that
\* has a bet on the round changes nothing, so the amount of a bet never
\* changes once it is placed; every stored amount is at most MAX_BET; and
\* tokens come into the contract only with a bet of that amount, above 0,
\* being stored for a wallet that had none on the round.
C13_OneBetPerRoundAndWallet ==
    [][/\ \A r \in RoundIds, w \in Addresses :
            /\ bets'[r][w].amount \in 0..MAX_BET
            /\ bets[r][w].amount # 0 => bets'[r][w].amount = bets[r][w].amount
            /\ (Called("placeBet") /\ lastTx'.roundId = r /\ lastTx'.sender = w
                  /\ bets[r][w].amount # 0)
                   => ~lastTx'.ok /\ UNCHANGED contractState
       /\ tokenBalance' > tokenBalance
            => \E r \in RoundIds, w \in Addresses :
                  /\ bets[r][w].amount = 0
                  /\ bets'[r][w].amount = tokenBalance' - tokenBalance]_vars

\* A wallet that has a bet on a round still open for bets sent another
\* placeBet for it, which was rejected.
C13_Witness ==
    /\ lastTx.fn = "placeBet"
    /\ ~lastTx.ok
    /\ bets[lastTx.roundId][lastTx.sender].amount > 0
    /\ rounds[lastTx.roundId].status = RandomReady
    /\ ~roundSettled[lastTx.roundId]

\* The bets of wallet w that the step marks as settled.
SettledInStep(w) == {r \in RoundIds : ~bets[r][w].settled /\ bets'[r][w].settled}

\* C14: a bet is paid at most once: the claimable balance of a wallet grows
\* only in a step that marks one bet of the wallet as settled, a bet that was
\* not settled before; and a settled bet keeps its amount, its
\* cashOutMultiplier and its settled flag for ever.
C14_BetPaidAtMostOnce ==
    [][\A w \in Addresses :
         /\ \A r \in RoundIds : bets[r][w].settled => bets'[r][w] = bets[r][w]
         /\ claimablePayouts'[w] > claimablePayouts[w]
                => Cardinality(SettledInStep(w)) = 1]_vars

\* Both bets on round 1 are settled, one after the other: the second batch
\* was processed while the first wallet's payout was still claimable.
C14_Witness ==
    /\ bets[1]["alice"].settled
    /\ bets[1]["bob"].settled
    /\ claimablePayouts["alice"] > 0
    /\ claimablePayouts["bob"] = 0

\* C15: the bet of wallet w that a step settles is credited, in that step,
\* with min(amount * multiplier * (1 - 150/10000), 70% of the token balance),
\* rounded down by integer division; the step moves no tokens.
C15_PayoutFormula ==
    [][\A w \in Addresses : \A r \in SettledInStep(w) :
         LET credited == claimablePayouts'[w] - claimablePayouts[w]
             gross == (bets[r][w].amount * bets'[r][w].cashOutMultiplier) \div E18
             net == gross * (BPS_DENOMINATOR - HOUSE_EDGE_BPS)
             maxWin == (tokenBalance * MAX_WIN_PERCENTAGE_BPS) \div BPS_DENOMINATOR
         IN  /\ credited <= maxWin
             /\ credited * BPS_DENOMINATOR <= net
             /\ credited < maxWin => (credited + 1) * BPS_DENOMINATOR > net
             /\ tokenBalance' = tokenBalance]_vars

\* One wallet was paid in full at 1.50x and the other was cut down to 70% of
\* the balance.
C15_Witness ==
    /\ bets[1]["alice"].settled
    /\ bets[1]["alice"].cashOutMultiplier = (3 * E18) \div 2
    /\ bets[1]["alice"].amount = 1 * E18
    /\ claimablePayouts["alice"] = 147
    /\ bets[1]["bob"].settled
    /\ bets[1]["bob"].amount = MAX_BET
    /\ claimablePayouts["bob"] = (tokenBalance * MAX_WIN_PERCENTAGE_BPS) \div BPS_DENOMINATOR

\* The batches of a sequence of batches, one after the other.
RECURSIVE Concat(_)
Concat(batches) ==
    IF batches = <<>> THEN <<>> ELSE Head(batches) \o Concat(Tail(batches))

\* The step is the one in which runGame finishes the settlement of round r.
SettlementDone(r) == r \notin completed /\ r \in completed'

\* C16: runGame submits the N cash-outs it settles in ceil(N/15) batches (none
\* when N = 0) of 1 to 15 entries, one batch per transaction and the next
\* only when the one before went through; the batches, put one after the
\* other, are the list of cash-outs in its order.
C16_SettlementBatching ==
    [][\A r \in RoundIds :
         LET data == cashOutData(gameCashOuts)
             sent == sentBatches'[r]
         IN  /\ Len(sent) <= Len(sentBatches[r]) + 1
             /\ \A k \in 1..Len(sent) : Len(sent[k]) \in 1..BATCH_SIZE
             /\ (Len(sent) > Len(sentBatches[r]))
                    => /\ r = currentRoundId
                       /\ Concat(sent) = SubSeq(data, 1, Len(Concat(sent)))
                       /\ \A k \in 1..(Len(sent) - 1) : Len(sent[k]) = BATCH_SIZE
             /\ SettlementDone(r)
                    => /\ r = currentRoundId
                       /\ Concat(sent) = data
                       /\ Len(sent) = (Len(data) + BATCH_SIZE - 1) \div BATCH_SIZE]_vars

\* A settlement of 31 cash-outs is finished: two batches of 15 and one of 1.
C16_Witness ==
    \E r \in RoundIds :
        /\ r \in completed
        /\ Len(sentBatches[r]) = 3
        /\ Len(sentBatches[r][3]) = 1

\* The step is one in which a batch of round r does not go through: runGame
\* throws out of its batch loop.
BatchFailed(r) ==
    /\ pc = "processCashOuts"
    /\ currentRoundId = r
    /\ pc' = "start"
    /\ r \notin completed'

\* C17: when a batch of a round fails, the contract is as it was before the
\* batch, the batches that went through before it stay applied, the round's
\* cash-outs stay in activeCashOuts, and no batch of the round is submitted
\* from then on: a batch is submitted only for the round runGame is
\* settling, and a round runGame has left is never its round again.
C17_BatchFailureAbortsSettlement ==
    [][\A r \in RoundIds :
         /\ BatchFailed(r)
               => /\ UNCHANGED <<contractState, sentBatches, mapVars>>
                  /\ activeCashOuts'[r].present
                  /\ activeCashOuts'[r].list = gameCashOuts
                  /\ \A k \in 1..Len(Concat(sentBatches[r])) :
                        bets'[r][Concat(sentBatches[r])[k].wallet].settled
         /\ sentBatches'[r] # sentBatches[r]
               => pc = "processCashOuts" /\ currentRoundId = r
         /\ (currentRoundId' = r /\ currentRoundId # r)
               => r = roundCounter /\ sentBatches[r] = <<>>]_vars

\* The second batch of round 1 failed: the first one is applied and the rest
\* is not, the cash-outs are in the map, and runGame has gone on to play
\* round 2 to its end.
C17_Witness ==
    /\ Len(sentBatches[1]) = 1
    /\ 1 \notin completed
    /\ activeCashOuts[1].present
    /\ Len(activeCashOuts[1].list) > BATCH_SIZE
    /\ 2 \in completed

\* The n-th call of runGame has thrown: runGame is not running and the call
\* did not finish its round.
Thrown(n) ==
    /\ games = n
    /\ gameServerSeed = ""
    /\ Cardinality(completed) < n

\* C18: whenever a call of runGame has thrown, at whichever step, main calls
\* runGame again (as long as the run has calls ahead).
C18_LoopRestartsAfterFailure ==
    \A n \in 1..MaxGames : Thrown(n) ~> (games > n)

\* The first call of runGame threw in its batch loop, after the settlement
\* of round 1, and main has called runGame again, which has created its round.
C18_Witness ==
    /\ games = MaxGames + 1
    /\ completed = {}
    /\ roundSettled[1]
    /\ pc = "requestRandomness"

\* The step is the catch of the entropy loop creating the round that takes
\* the place of runGame's round.
RoundReplaced == pc = "retry" /\ pc' = "requestRandomness"

\* C19: when the request or the wait for entropy has failed, runGame leaves
\* its round, for which no game was generated, and goes on with a round
\* newly created with the same serverSeedHash; a game is generated for the
\* round runGame is at, whose entropy is there; and the server reveals and
\* settles only a round a game was generated for, so never a round it left.
C19_EntropyRetryReplacesRound ==
    [][/\ RoundReplaced
            => /\ currentRoundId' = roundCounter
               /\ currentRoundId' > currentRoundId
               /\ rounds'[currentRoundId'].serverSeedHash
                      = rounds[currentRoundId].serverSeedHash
               /\ rounds'[currentRoundId'].status = Created
               /\ generated[currentRoundId] = 0
               /\ gameServerSeed' = gameServerSeed
       /\ \A r \in RoundIds :
            /\ generated'[r] # generated[r]
                  => /\ r = currentRoundId
                     /\ rounds[r].entropyRandom # 0
                     /\ activeRounds'[r].present
            /\ (\/ rounds'[r].status = SeedRevealed /\ rounds[r].status # SeedRevealed
                \/ roundSettled'[r] /\ ~roundSettled[r])
                  => r = currentRoundId /\ generated[r] # 0
            /\ (currentRoundId # r /\ currentRoundId' = r) => r = roundCounter]_vars

\* Round 1 was left after its entropy did not come in time; the game ran on
\* round 2, which is revealed and settled, and round 1 is neither, although
\* its entropy has come in since.
C19_Witness ==
    /\ generated[1] = 0
    /\ rounds[1].status = RandomReady
    /\ generated[2] # 0
    /\ rounds[2].status = SeedRevealed
    /\ roundSettled[2]
    /\ rounds[1].serverSeedHash = rounds[2].serverSeedHash

\* requestAndWaitForEntropy has sent the request and waits: for the reveal
\* delay, or for the entropy in its polling loop.
AwaitingEntropy == pc \in {"revealDelay", "poll"}

ActiveRoundIds ==
    {r \in RoundIds :
        activeRounds[r].present /\ activeRounds[r].state \in {"betting", "running"}}

\* C21: in every state of the server, after failed rounds too, at most one
\* entry of activeRounds is in state 'betting' or 'running'.
C21_AtMostOneActiveRound ==
    Cardinality(ActiveRoundIds) <= 1

\* A round whose settlement failed is still in activeRounds, ended, while
\* the round of the next call of runGame is running.
C21_Witness ==
    \E r, n \in RoundIds :
        /\ r # n
        /\ activeRounds[r].present
        /\ activeRounds[r].state = "ended"
        /\ r \notin completed
        /\ ActiveRoundIds = {n}
        /\ activeRounds[n].state = "running"

\* ------------------------------------------ properties of the connections
\* The place in inbox c of the status frame `status` of round r, 0 when the
\* connection was not sent it.
StatusIndex(c, status, r) ==
    IF \E i \in 1..Len(inbox[c]) :
           /\ inbox[c][i].type = "status"
           /\ inbox[c][i].status = status
           /\ inbox[c][i].roundId = r
    THEN CHOOSE i \in 1..Len(inbox[c]) :
           /\ inbox[c][i].type = "status"
           /\ inbox[c][i].status = status
           /\ inbox[c][i].roundId = r
    ELSE 0

\* The updates among the frames, in the order sent.
RECURSIVE UpdatesOf(_)
UpdatesOf(frames) ==
    IF frames = <<>>
    THEN <<>>
    ELSE IF Head(frames).type = "update"
         THEN <<Head(frames).update>> \o UpdatesOf(Tail(frames))
         ELSE UpdatesOf(Tail(frames))

\* What connection c was sent after the frame at place i in the frames f.
FramesAfter(f, i) == SubSeq(f, i + 1, Len(f))

\* The connections that are open and were sent 'prepared' for the round
\* runGame is running.
Watching ==
    {c \in ClientIds :
        clients[c] = "open" /\ StatusIndex(c, "prepared", currentRoundId) # 0}

\* The updates runGame has to send for the generated ticks u.
Stream(u) ==
    IF u # <<>> /\ u[1].gameState = 2
    THEN <<syntheticStartUpdate>> \o u
    ELSE u

\* C22: a connection that is open from the 'prepared' status of a round on
\* is sent, after the made-up 1.00x update, exactly the generated ticks in
\* their order: while the round runs it has the ticks up to the last one
\* sent, each once; with the CRASHED tick it has them all; and no update
\* follows a CRASHED tick before the next game is announced.
C22_TicksInGenerationOrder ==
    /\ [](\A c \in Watching :
            LET got == UpdatesOf(FramesAfter(inbox[c],
                                     StatusIndex(c, "prepared", currentRoundId)))
            IN  /\ pc = "prepared" => got = <<>>
                /\ pc = "tick" => got = Stream(SubSeq(updates, 1, tickIndex - 1)))
    /\ [][(pc \in {"prepared", "tick"} /\ pc' = "crashed") =>
            \A c \in Watching :
                UpdatesOf(FramesAfter(inbox'[c],
                              StatusIndex(c, "prepared", currentRoundId)))
                    = Stream(updates)]_vars
    /\ [](\A c \in ClientIds :
            \A i, j \in 1..Len(inbox[c]) :
                (/\ i < j
                 /\ inbox[c][i].type = "update"
                 /\ inbox[c][i].update.gameState = 3
                 /\ inbox[c][j].type = "update")
                    => \E k \in (i + 1)..(j - 1) :
                           /\ inbox[c][k].type = "status"
                           /\ inbox[c][k].status = "preparing_game")

\* A connection has been sent the whole stream of a round of three ticks.
C22_Witness ==
    /\ pc = "crashed"
    /\ \E c \in Watching :
         LET got == UpdatesOf(FramesAfter(inbox[c],
                                  StatusIndex(c, "prepared", currentRoundId)))
         IN  /\ Len(got) = 4
             /\ got[1] = syntheticStartUpdate
             /\ got[2].gameState = 2
             /\ got[3].gameState = 2
             /\ got[3] # got[2]
             /\ got[4].gameState = 3

\* C23: while runGame waits for the next tick interval, the live multiplier
\* of the round it runs, the one cash-outs are checked against, is the value of
\* the RUNNING tick broadcast last, from the first tick of the round on.
C23_LiveMultiplierFollowsTicks ==
    pc = "tick" =>
        activeRounds[currentRoundId].currentMultiplier =
            updates[tickIndex - 1].currentValue

\* The frames the step hands to connection c.
NewFrames(c) == SubSeq(inbox'[c], Len(inbox[c]) + 1, Len(inbox'[c]))

\* runGame holds a seed and has not yet sent the CRASHED tick of its round.
BeforeCrash(at) ==
    at \in {"requestRandomness", "revealDelay", "poll", "retry", "betting",
            "prepared", "tick"}

\* The CRASHED tick of round r is the update broadcast last.
CrashBroadcast(r) ==
    /\ currentGameState.roundId = r
    /\ currentGameState.gameState = "ended"
    /\ currentGameState.latestUpdate.gameState = 3

\* The frame gives away neither a server seed nor the outcome of round r:
\* it is no CRASHED tick, and no snapshot of an ended round, of a CRASHED
\* tick or of a result of r.
KeepsSecret(frame, r) ==
    /\ frame.serverSeed = ""
    /\ frame.update.gameState # 3
    /\ frame.state.gameState # "ended"
    /\ frame.state.latestUpdate.gameState # 3
    /\ \A k \in 1..Len(frame.state.recentRounds) :
           frame.state.recentRounds[k].roundId # r

\* C24: the seed of a round is revealed on chain, and sent to the clients
\* with the status 'revealed', only after the round's CRASHED tick has been
\* broadcast; and as long as runGame has not sent that tick, no frame it or
\* the connection handler sends carries the seed or the outcome of the round.
C24_SeedSecretUntilCrash ==
    [][/\ \A r \in RoundIds :
            (rounds'[r].status = SeedRevealed /\ rounds[r].status # SeedRevealed)
                => CrashBroadcast(r)
       /\ (lastTx' # lastTx /\ lastTx'.fn = "revealServerSeed")
                => CrashBroadcast(lastTx'.roundId)
       /\ \A c \in ClientIds :
            \A k \in 1..Len(NewFrames(c)) :
                LET frame == NewFrames(c)[k]
                IN  /\ BeforeCrash(pc') => KeepsSecret(frame, currentRoundId')
                    /\ frame.serverSeed # "" =>
                          /\ frame.status = "revealed"
                          /\ rounds[frame.roundId].status = SeedRevealed
                          /\ rounds[frame.roundId].serverSeed = frame.serverSeed
                          /\ CrashBroadcast(frame.roundId)]_vars

\* A connection that saw the betting open has been sent the CRASHED tick
\* and, after it, the seed that is revealed on chain.
C24_Witness ==
    \E c \in ClientIds, r \in RoundIds :
        /\ StatusIndex(c, "betting_open", r) # 0
        /\ StatusIndex(c, "revealed", r) # 0
        /\ \E i \in 1..Len(inbox[c]) :
               /\ inbox[c][i].type = "update"
               /\ inbox[c][i].update.gameState = 3
               /\ StatusIndex(c, "betting_open", r) < i
               /\ i < StatusIndex(c, "revealed", r)
        /\ inbox[c][StatusIndex(c, "revealed", r)].serverSeed = "seedA"
        /\ rounds[r].serverSeed = "seedA"

\* The phase runGame stands in while it runs a game.
RoundPhase ==
    CASE pc \in {"requestRandomness", "revealDelay", "poll", "retry"} -> "preparing"
      [] pc = "betting" -> "betting"
      [] pc = "prepared" -> "prepared"
      [] pc = "tick" -> "running"
      [] OTHER -> "ended"

\* The multiplier of the tick the connections were sent last: 1.00 before
\* the first tick, the final multiplier once the round has crashed.
LiveMultiplier ==
    CASE pc = "tick" -> updates[tickIndex - 1].currentValue
      [] pc \in {"crashed", "settle", "processCashOuts"} ->
             gameFinalMultiplier * 1000
      [] OTHER -> One

\* u is the tick the connections were sent last, none before the first.
IsLatestTick(u) ==
    CASE pc = "tick" -> u = updates[tickIndex - 1]
      [] pc \in {"crashed", "settle", "processCashOuts"} -> u.gameState = 3
      [] OTHER -> u = NoUpdate

\* The results of the rounds settled on chain, oldest first, the last six.
SettledResults ==
    LET ids == SelectSeq([r \in RoundIds |-> r], LAMBDA r : roundSettled[r])
        first == IF Len(ids) > MAX_RECENT_ROUNDS
                 THEN Len(ids) - MAX_RECENT_ROUNDS + 1 ELSE 1
    IN  SubSeq(ids, first, Len(ids))

\* The snapshot tells the state of the server as it is.
AsAtConnection(frame) ==
    /\ frame.type = "state_snapshot"
    /\ frame.recentChatMessages = lastChatMessages(chatMessages)
    /\ Len(frame.state.recentRounds) = Len(SettledResults)
    /\ \A k \in 1..Len(SettledResults) :
           /\ frame.state.recentRounds[k].roundId = SettledResults[k]
           /\ ParseUnits(frame.state.recentRounds[k].multiplier * 1000) =
                  roundFinalMultipliers[SettledResults[k]]
    /\ pc # "start" =>
           /\ frame.state.gameState = RoundPhase
           /\ frame.state.roundId =
                  (IF RoundPhase = "preparing" THEN 0 ELSE currentRoundId)
           /\ IsLatestTick(frame.state.latestUpdate)
           /\ frame.state.currentMultiplier = LiveMultiplier

\* C25: a new connection is sent one state_snapshot, before any status,
\* update or chat message, and never another; the snapshot carries the round
\* id, the phase, the live multiplier, the latest tick, the recent chat
\* messages and the recent round results as they are when it connects.
C25_SnapshotOnConnection ==
    [][\A c \in ClientIds :
          IF clients[c] = "none" /\ clients'[c] # "none"
          THEN /\ Len(inbox'[c]) = 1
               /\ AsAtConnection(inbox'[c][1])
          ELSE /\ clients[c] = "none" => inbox'[c] = <<>>
               /\ \A k \in 1..Len(NewFrames(c)) :
                      NewFrames(c)[k].type # "state_snapshot"]_vars

\* The awaits at which runGame, or the main loop between two games, stands.
Waits ==
    {"start", "requestRandomness", "revealDelay", "poll", "retry", "betting",
     "prepared", "tick", "crashed", "settle", "processCashOuts"}

\* C26: at whichever await runGame stands, a socket that connects is taken
\* and sent its snapshot, and a chat message of an open connection is
\* broadcast to the open connections.
C26_HandlersNeverBlocked ==
    /\ pc \in Waits
    /\ \A c \in ClientIds :
        /\ (clients[c] = "none" /\ \A k \in 1..(c - 1) : clients[k] # "none")
              => ENABLED (/\ wss_connection(c)
                          /\ inbox'[c] = <<SnapshotFrame(currentGameState,
                                                         chatMessages)>>)
        /\ (clients[c] = "open" /\ chatsSent < MaxChats)
              => ENABLED (/\ ws_chat_message(c, "0xAB", " gm")
                          /\ \A d \in ClientIds :
                                clients[d] = "open" =>
                                    /\ Len(inbox'[d]) = Len(inbox[d]) + 1
                                    /\ inbox'[d][Len(inbox'[d])].type = "chat_message"
                                    /\ inbox'[d][Len(inbox'[d])].chat.message = "gm")

\* Within one tick interval of a running round a client has connected, got
\* its snapshot of the running state and then the chat message it sent.
C26_Witness ==
    /\ pc = "tick"
    /\ \E c \in ClientIds :
        /\ clients[c] = "open"
        /\ Len(inbox[c]) = 2
        /\ inbox[c][1].type = "state_snapshot"
        /\ inbox[c][1].state.gameState = "running"
        /\ inbox[c][2].type = "chat_message"
        /\ inbox[c][2].chat.message = "gm"

\* ------------------------------- generateCrashGame and VerifyGame at work
\* generateCrashGame(gameInput) is called; what it returns is kept.
callGenerateCrashGame ==
    /\ genCalls < MaxCalls
    /\ genCalls' = genCalls + 1
    /\ results' = results \cup {[at |-> now, result |-> CrashGameResult(gameInput)]}
    /\ UNCHANGED <<gameInput, now, verified>>
    /\ UNCHANGED <<contractVars, runGameVars, mapVars, handlerVars, historyVars,
                   wsVars, hookVars>>

\* The server's clock moves on between two calls.
clockAdvances ==
    /\ now < MaxNow
    /\ now' = now + 1
    /\ UNCHANGED <<gameInput, results, genCalls, verified>>
    /\ UNCHANGED <<contractVars, runGameVars, mapVars, handlerVars, historyVars,
                   wsVars, hookVars>>

\* A player verifies the round of gameInput.
verifyGame ==
    /\ verified = NotVerified
    /\ verified' = VerifyGame(parseInt(gameInput.vrfRandom), gameInput.roundId,
                              gameInput.serverSeed, gameInput.chainId)
    /\ UNCHANGED <<gameInput, now, results, genCalls>>
    /\ UNCHANGED <<contractVars, runGameVars, mapVars, handlerVars, historyVars,
                   wsVars, hookVars>>

GeneratorInit ==
    /\ ContractInit
    /\ WsInit
    /\ HandlersInit
    /\ gameInput \in GameInputs
    /\ now = 0
    /\ results = {}
    /\ genCalls = 0
    /\ verified = NotVerified
    /\ HookInit

GeneratorNext ==
    \/ callGenerateCrashGame
    \/ clockAdvances
    \/ verifyGame

GeneratorSpec == GeneratorInit /\ [][GeneratorNext]_vars

InRange(m) ==
    /\ m.den > 0
    /\ m.den <= m.num
    /\ (m.num - 1) \div MaxMultiplier < m.den

\* C28: the finalMultiplier generateCrashGame returns lies in [1.00,
\* 10000.00] and is a whole number of hundredths.
C28_FinalMultiplierInRange ==
    \A a \in results :
        /\ InRange(a.result.finalMultiplier)
        /\ (100 * a.result.finalMultiplier.num) % a.result.finalMultiplier.den = 0

\* A call whose raw multiplier is Infinity has returned 10000.00, and the
\* input is one whose first draw is the largest.
C28_Witness ==
    \E a \in results :
        /\ a.result.rawMultiplier.den = 0
        /\ a.result.finalMultiplier = [num |-> 100 * MaxMultiplier, den |-> 100]

\* r0 of the input at hand, the numerator
FirstDraw ==
    getRandom(deriveSeed(gameInput.vrfRandom, gameInput.roundId,
                         gameInput.serverSeed, gameInput.chainId), 0)

\* C29: when the first draw r0 is 0 the finalMultiplier is exactly 1.00.
C29_InstantCrash ==
    FirstDraw = 0 =>
        \A a \in results :
            a.result.finalMultiplier = [num |-> 100, den |-> 100]

\* A call on an input whose first draw is 0 has returned 1.00, in a game
\* that ends with a CRASHED tick at 1.00x.
C29_Witness ==
    /\ FirstDraw = 0
    /\ \E a \in results :
        /\ a.result.finalMultiplier = [num |-> 100, den |-> 100]
        /\ a.result.rawMultiplier.num = a.result.rawMultiplier.den
        /\ a.result.updates[Len(a.result.updates)].gameState = 3
        /\ a.result.updates[Len(a.result.updates)].currentValue = One

\* C30: the finalMultiplier VerifyGame shows for (entropyRandom, roundId,
\* serverSeed, chainId) is the one generateCrashGame returns for them.
C30_VerifierAgrees ==
    verified # NotVerified =>
        \A a \in results : a.result.finalMultiplier = verified

\* ------------------------------------------- the ticks of generateCrashGame
\* The last tick of a returned game
LastTick(a) == a.result.updates[Len(a.result.updates)]

TicksOfInput ==
    totalTicks(getRandom(deriveSeed(gameInput.vrfRandom, gameInput.roundId,
                                    gameInput.serverSeed, gameInput.chainId), 1),
               gameInput.tickIntervalMs)

\* C33: every tick sequence generateCrashGame returns is non-empty, has at
\* most totalTicks ticks and exactly one CRASHED tick, the last one, whose
\* close and currentValue are finalMultiplier exactly (currentValue in
\* 1/100000); every earlier tick is RUNNING with a value not above
\* finalMultiplier.
C33_TickSequenceShape ==
    \A a \in results :
        LET ticks == a.result.updates
            final == a.result.finalMultiplier.num
        IN  /\ Len(ticks) >= 1
            /\ Len(ticks) <= TicksOfInput
            /\ LastTick(a).gameState = 3
            /\ LastTick(a).close = final
            /\ LastTick(a).currentValue = final * 1000
            /\ \A k \in 1..(Len(ticks) - 1) :
                /\ ticks[k].gameState = 2
                /\ ticks[k].close <= final
                /\ ticks[k].currentValue <= final * 1000

\* C34: candles are contiguous: the first tick opens at 1.00, every later
\* tick opens at the close of the tick before it, and every tick's high and
\* low are the maximum and minimum of its open and close.
C34_CandlesContiguous ==
    \A a \in results :
        LET ticks == a.result.updates
        IN  /\ ticks[1].open = 100
            /\ \A k \in 2..Len(ticks) : ticks[k].open = ticks[k - 1].close
            /\ \A k \in 1..Len(ticks) :
                /\ ticks[k].high = Max(ticks[k].open, ticks[k].close)
                /\ ticks[k].low = Min(ticks[k].open, ticks[k].close)

\* A game of three ticks or more has been returned with a falling candle
\* followed by a rising one that opens away from 1.00.
C34_Witness ==
    \E a \in results :
        LET ticks == a.result.updates
        IN  /\ Len(ticks) >= 3
            /\ \E k \in 2..Len(ticks) :
                /\ ticks[k - 1].close < ticks[k - 1].open
                /\ ticks[k].close > ticks[k].open
                /\ ticks[k].open # 100

\* ------------------------------------------------- the order of the statuses
\* The statuses of a round in the order runGame is to send them, after
\* 'preparing_game'
RoundStatuses == <<"betting_open", "prepared", "game_started", "revealed">>

\* C35: the statuses of a round are broadcast in the order preparing_game,
\* betting_open, prepared, game_started, revealed, and game_started comes
\* before the first update of the round, also when the first generated tick
\* is the crash tick: a connection sent 'prepared' of a round has, before any
\* update that follows it, been sent 'game_started' of the round.
C35_StatusOrder ==
    \A c \in ClientIds : \A r \in RoundIds :
        LET at == [i \in 1..4 |-> StatusIndex(c, RoundStatuses[i], r)]
        IN  /\ \A i, j \in 1..4 :
                 (i < j /\ at[i] # 0 /\ at[j] # 0) => at[i] < at[j]
            /\ \A k \in 1..Len(inbox[c]) :
                 (/\ inbox[c][k].type = "status"
                  /\ inbox[c][k].status = "preparing_game"
                  /\ at[1] # 0
                  /\ at[4] # 0)
                     => ~(at[1] < k /\ k < at[4])
            /\ at[2] # 0 =>
                 \A j \in (at[2] + 1)..Len(inbox[c]) :
                     inbox[c][j].type = "update"
                         => (at[3] # 0 /\ at[3] < j)

\* ------------------------------------------------------------- no rerolls
\* C36: requestRandomness succeeds at most once per round (a round's
\* sequence number is set once, in the step from Created to RandomRequested,
\* to a number bound to no round before), a sequence number bound to a round
\* stays bound to it, and a round's entropyRandom is written once, by the
\* callback that takes the round from RandomRequested to RandomReady, and
\* never changes afterwards.
C36_NoRerolls ==
    [][\A r \in RoundIds :
         /\ rounds[r].sequenceNumber # 0
                => rounds'[r].sequenceNumber = rounds[r].sequenceNumber
         /\ rounds'[r].sequenceNumber # rounds[r].sequenceNumber
                => /\ rounds[r].status = Created
                   /\ rounds'[r].status = RandomRequested
                   /\ sequenceToRound[rounds'[r].sequenceNumber] = 0
                   /\ sequenceToRound'[rounds'[r].sequenceNumber] = r
         /\ rounds'[r].status = RandomRequested
                => rounds[r].status \in {Created, RandomRequested}
         /\ \A s \in SeqNums :
                sequenceToRound[s] # 0 => sequenceToRound'[s] = sequenceToRound[s]
         /\ rounds'[r].entropyRandom # rounds[r].entropyRandom
                => /\ rounds[r].status = RandomRequested
                   /\ rounds'[r].status = RandomReady
                   /\ r \notin entropyDelivered
         /\ rounds[r].status >= RandomReady
                => rounds'[r].entropyRandom = rounds[r].entropyRandom
      ]_vars

\* Two rounds have their own sequence numbers and have received different
\* random numbers; the first has moved on to the reveal.
C36_Witness ==
    /\ rounds[1].status = SeedRevealed
    /\ rounds[2].status = RandomReady
    /\ rounds[1].sequenceNumber # 0
    /\ rounds[2].sequenceNumber # 0
    /\ rounds[1].sequenceNumber # rounds[2].sequenceNumber
    /\ sequenceToRound[rounds[1].sequenceNumber] = 1
    /\ sequenceToRound[rounds[2].sequenceNumber] = 2
    /\ rounds[1].entropyRandom # 0
    /\ rounds[2].entropyRandom # 0
    /\ rounds[1].entropyRandom # rounds[2].entropyRandom

\* ---------------------------------------------------------------- solvency
\* The sum of claimablePayouts over the wallets of the set
RECURSIVE TotalClaimable(_)
TotalClaimable(wallets) ==
    IF wallets = {}
    THEN 0
    ELSE LET w == CHOOSE x \in wallets : TRUE
         IN  claimablePayouts[w] + TotalClaimable(wallets \ {w})

\* C37: after any sequence of placeBet, processCashOuts, claimAllPayouts and
\* withdrawHouseEdge the contract's token balance is at least the sum of all
\* wallets' claimablePayouts, so every claim can be paid.
C37_Solvency ==
    tokenBalance >= TotalClaimable(Addresses)

\* ------------------------------------------------ the batches runGame sends
\* C38: every entry of a batch runGame is about to submit meets the
\* preconditions of processCashOuts: the round is settled, the wallet has a
\* bet not yet settled, the multiplier lies between 1.00x and the settled
\* final multiplier, and no wallet is named twice in the batches of the
\* round; so the contract takes the batch.
C38_BatchMeetsPreconditions ==
    pc = "processCashOuts" =>
        LET data == cashOutData(gameCashOuts)
            batch == batchOf(data, batchIndex)
            final == roundFinalMultipliers[currentRoundId]
        IN  /\ roundSettled[currentRoundId]
            /\ final > 0
            /\ \A k \in 1..Len(batch) :
                 /\ bets[currentRoundId][batch[k].wallet].amount > 0
                 /\ ~bets[currentRoundId][batch[k].wallet].settled
                 /\ batch[k].multiplier >= E18
                 /\ batch[k].multiplier <= final
            /\ \A i, j \in 1..Len(data) :
                 i # j => data[i].wallet # data[j].wallet
            /\ cashOutLoop(batch, 1, final, bets[currentRoundId],
                           claimablePayouts).ok

\* A batch runGame submitted has gone through: round 1 is settled and the
\* bet of the wallet the batch names is settled at the submitted multiplier.
C38_Witness ==
    /\ Len(sentBatches[1]) = 1
    /\ Len(sentBatches[1][1]) = 1
    /\ roundSettled[1]
    /\ bets[1][sentBatches[1][1][1].wallet].settled
    /\ bets[1][sentBatches[1][1][1].wallet].cashOutMultiplier
           = sentBatches[1][1][1].multiplier
    /\ \E c \in acked : c.roundId = 1 /\ c.walletAddress = "0xab"

\* --------------------------------------------------- the state of a snapshot
\* C39: whenever currentGameState.gameState is 'running' and latestUpdate is
\* a tick of the round, currentGameState.currentMultiplier is
\* latestUpdate.currentValue / 100000.
C39_SnapshotConsistent ==
    (/\ currentGameState.gameState = "running"
     /\ \E k \in 1..Len(updates) : currentGameState.latestUpdate = updates[k])
        => currentGameState.currentMultiplier
               = currentGameState.latestUpdate.currentValue

\* ------------------------------------------------- the useWebSocket hook
\* The WebSockets created so far; the next one gets the next number.
SocketsCreated == Cardinality({s \in SocketIds : sockets[s] # "none"})

\* ws.close(): a socket that is connecting or open starts closing; its close
\* event follows.
Close(s) ==
    IF s # 0 /\ sockets[s] \in {"connecting", "open"}
    THEN [sockets EXCEPT ![s] = "closing"]
    ELSE sockets

\* performConnect, with `pending` the timeouts pending when it is called:
\* nothing while wsRef is open or connecting; otherwise the reconnect timeout
\* is cleared and a new WebSocket created.
performConnect(pending) ==
    IF wsRef # 0 /\ sockets[wsRef] \in {"open", "connecting"}
    THEN /\ timers' = pending
         /\ UNCHANGED <<sockets, wsRef, reconnectTimeoutRef>>
    ELSE /\ SocketsCreated < MaxSockets
         /\ timers' = pending \ {reconnectTimeoutRef}
         /\ reconnectTimeoutRef' = 0
         /\ sockets' = [sockets EXCEPT ![SocketsCreated + 1] = "connecting"]
         /\ wsRef' = SocketsCreated + 1

\* The effect that runs on mount
useEffect_mount ==
    /\ ~mounted
    /\ SocketsCreated = 0
    /\ mounted' = TRUE
    /\ performConnect(timers)
    /\ UNCHANGED <<retryCountRef, stayClosed, sinceOpen>>
    /\ UNCHANGED <<contractVars, serverVars>>

\* The clean-up of the effect, on unmount
useEffect_cleanup ==
    /\ mounted
    /\ mounted' = FALSE
    /\ timers' = timers \ {reconnectTimeoutRef}
    /\ reconnectTimeoutRef' = 0
    /\ sockets' = Close(wsRef)
    /\ wsRef' = 0
    /\ stayClosed' = (stayClosed \/ (wsRef # 0 /\ sockets[wsRef] = "open"))
    /\ UNCHANGED <<retryCountRef, sinceOpen>>
    /\ UNCHANGED <<contractVars, serverVars>>

\* connect() of the hook's result
connect ==
    /\ mounted
    /\ performConnect(timers)
    /\ stayClosed' = FALSE
    /\ UNCHANGED <<retryCountRef, mounted, sinceOpen>>
    /\ UNCHANGED <<contractVars, serverVars>>

\* disconnect() of the hook's result
disconnect ==
    /\ mounted
    /\ timers' = timers \ {reconnectTimeoutRef}
    /\ sockets' = Close(wsRef)
    /\ stayClosed' = (stayClosed \/ (wsRef # 0 /\ sockets[wsRef] = "open"))
    /\ UNCHANGED <<wsRef, retryCountRef, reconnectTimeoutRef, mounted, sinceOpen>>
    /\ UNCHANGED <<contractVars, serverVars>>

ws_onopen_KeepsCount(s) ==
    /\ sockets[s] = "connecting"
    /\ sockets' = [sockets EXCEPT ![s] = "open"]
    /\ sinceOpen' = 0
    /\ UNCHANGED <<wsRef, retryCountRef, reconnectTimeoutRef, timers, mounted,
                   stayClosed>>
    /\ UNCHANGED <<contractVars, serverVars>>

\* ws.onopen of socket s
ws_onopen(s) ==
    /\ sockets[s] = "connecting"
    /\ sockets' = [sockets EXCEPT ![s] = "open"]
    /\ retryCountRef' = 0
    /\ sinceOpen' = 0
    /\ UNCHANGED <<wsRef, reconnectTimeoutRef, timers, mounted, stayClosed>>
    /\ UNCHANGED <<contractVars, serverVars>>

\* ws.onclose of socket s: the connection failed, was lost, or its closing is
\* complete.  The timeout scheduled carries the socket's number.
ws_onclose(s) ==
    /\ sockets[s] \in {"connecting", "open", "closing"}
    /\ sockets' = [sockets EXCEPT ![s] = "closed"]
    /\ IF reconnect /\ retryCountRef < maxRetries
       THEN /\ retryCountRef' = retryCountRef + 1
            /\ sinceOpen' = sinceOpen + 1
            /\ timers' = timers \cup {s}
            /\ reconnectTimeoutRef' = s
       ELSE /\ reconnectTimeoutRef' =
                 (IF retryCountRef >= maxRetries THEN 0 ELSE reconnectTimeoutRef)
            /\ UNCHANGED <<retryCountRef, sinceOpen, timers>>
    /\ UNCHANGED <<wsRef, mounted, stayClosed>>
    /\ UNCHANGED <<contractVars, serverVars>>

\* The reconnect timeout t runs out: connectRef.current()
reconnectTimeout(t) ==
    /\ t \in timers
    /\ performConnect(timers \ {t})
    /\ UNCHANGED <<retryCountRef, mounted, stayClosed, sinceOpen>>
    /\ UNCHANGED <<contractVars, serverVars>>

WsOnOpen == \E s \in SocketIds : ws_onopen(s)
WsOnClose == \E s \in SocketIds : ws_onclose(s)
ReconnectTimeout == \E t \in SocketIds : reconnectTimeout(t)

ClientNext ==
    \/ useEffect_mount
    \/ useEffect_cleanup
    \/ connect
    \/ disconnect
    \/ WsOnOpen
    \/ WsOnClose
    \/ ReconnectTimeout

ClientSpec == Init /\ [][ClientNext]_vars

\* A close event of socket s happens in the step.
Closes(s) == sockets[s] # "closed" /\ sockets'[s] = "closed"

\* C32: the hook reconnects after a disconnect, up to maxRetries times: a
\* close event schedules one reconnect attempt while fewer than maxRetries
\* attempts have been scheduled since the last open, and none after that;
\* only a close event schedules one; and an open sets the retry counter to 0.
C32_ReconnectsUpToMaxRetries ==
    /\ [](sinceOpen <= maxRetries)
    /\ [][/\ \A s \in SocketIds :
               /\ Closes(s) =>
                    IF sinceOpen < maxRetries
                    THEN /\ s \notin timers
                         /\ timers' = timers \cup {s}
                         /\ sinceOpen' = sinceOpen + 1
                    ELSE timers' = timers
               /\ (sockets[s] = "connecting" /\ sockets'[s] = "open")
                    => retryCountRef' = 0
          /\ ~(timers' \subseteq timers) => \E s \in SocketIds : Closes(s)]_vars

\* The hook has given up: after an open, maxRetries reconnects in a row were
\* scheduled and made, the last socket has closed and no timeout is pending.
C32_Witness ==
    /\ mounted
    /\ retryCountRef = maxRetries
    /\ sinceOpen = maxRetries
    /\ timers = {}
    /\ SocketsCreated = maxRetries + 2
    /\ \A s \in 1..SocketsCreated : sockets[s] = "closed"

\* C40: after disconnect(), or the unmount, has closed an open connection,
\* the connection stays closed until connect() is called: no reconnect is
\* scheduled and no WebSocket created.
C40_StaysClosedAfterDisconnect ==
    [][(stayClosed /\ stayClosed')
          => /\ timers' \subseteq timers
             /\ \A s \in SocketIds : sockets[s] = "none" => sockets'[s] = "none"]_vars

====
